---- MODULE Spec2Model ----
(***************************************************************************)
(* DaliTrail geospatial feature store: the nearby search                   *)
(* (geodata.fetch_nearby_features), the subset builders                    *)
(* (geodata.build_lite_dataset, scripts/generate_lite_db.py) and the       *)
(* network-facing build operation (main.build_geonames_lite).              *)
(*                                                                         *)
(* Units.  Coordinates are integers in millidegrees, radii are integers in *)
(* kilometres, distances are integers in metres (rounded up, so that       *)
(* "distance <= radius" is decided exactly for an integer radius).         *)
(* Python None and SQL NULL are the one value None.                        *)
(***************************************************************************)
EXTENDS Integers, Sequences, FiniteSets, TLC

VARIABLES
    env,     \* the process environment: variable name -> value (None: unset)
    fs,      \* the file system: path -> file
    clock,   \* the wall clock read by datetime.now()
    ret,     \* the outcome of the last call: arguments, exception, value
    inflight \* the responses of the build endpoint not yet finished

vars == <<env, fs, clock, ret, inflight>>

None == "<None>"

\* Python truthiness of an Optional[str].
Truthy(s) == s # None /\ s # ""

(***************************************************************************)
(* Bounds of the model.                                                    *)
(***************************************************************************)
MaxClock == 2

(***************************************************************************)
(* Program constants.                                                      *)
(***************************************************************************)
LIMIT_MIN == 1
LIMIT_MAX == 200
KM_PER_DEGREE == 111
COS_FLOOR_MICRO == 1

DEFAULT_DATASET_PATHS ==
    << "data/geonames-lite-us-wa.db",
       "assets/data/geonames-lite-us-wa.db",
       "../DaliTrailData/data/geonames-lite-us-wa.db" >>

DEFAULT_MASTER_CANDIDATES ==
    << "data/geonames-all_countries_latest.db",
       "../DaliTrailData/data/geonames-all_countries_latest.db" >>

\* Paths named by the environment overrides and by callers.
EnvLitePath == "/srv/lite.db"
EnvMasterPath == "/srv/master.db"
OutPaths == {"out/a.db", "out/b.db"}
TempPaths == {"/tmp/tmp1.db", "/tmp/tmp2.db"}

Range(s) == {s[i] : i \in 1..Len(s)}

\* The element of a singleton.  The({F(v) : v \in {e}}) is F(e), with e
\* evaluated once.
The(S) == CHOOSE x \in S : TRUE

\* The catalog file, and the paths static catalog entries name.
DATASET_CATALOG_PATH == "configs/geonames-datasets.json"
SamplePath == "assets/data/geonames-sample.db"
RegionPath == "assets/data/generated/geonames-lite-us-or.db"

Paths ==
    Range(DEFAULT_DATASET_PATHS) \cup Range(DEFAULT_MASTER_CANDIDATES)
        \cup {EnvLitePath, EnvMasterPath} \cup OutPaths \cup TempPaths
        \cup {DATASET_CATALOG_PATH, SamplePath, RegionPath}

(***************************************************************************)
(* Files.  A file is absent, a SQLite database (the set of its tables and  *)
(* their rows) or something SQLite cannot read.                            *)
(***************************************************************************)
Absent ==
    [kind |-> "absent", tables |-> {}, features |-> {}, metadata |-> {},
     alternate_names |-> {}]

Garbage ==
    [kind |-> "garbage", tables |-> {}, features |-> {}, metadata |-> {},
     alternate_names |-> {}]

\* What sqlite3.connect leaves at a path that did not exist: a database
\* with no table.
EmptyDb ==
    [kind |-> "db", tables |-> {}, features |-> {}, metadata |-> {},
     alternate_names |-> {}]

Exists(files, p) == files[p].kind # "absent"

(***************************************************************************)
(* Feature rows.  The master schema (generate_lite_db.FEATURE_COLUMNS) has *)
(* 17 columns, the lite schema of build_lite_dataset the 12 of             *)
(* LITE_COLUMNS.                                                           *)
(***************************************************************************)
FEATURE_COLUMNS ==
    << "geoname_id", "name", "name_ascii", "feature_class", "feature_code",
       "latitude", "longitude", "country", "admin1", "admin2", "population",
       "elevation", "timezone", "modification_date", "search_tokens",
       "grid_lat", "grid_lng" >>

LITE_COLUMNS ==
    << "geoname_id", "name", "latitude", "longitude", "feature_class",
       "feature_code", "country", "admin1", "admin2", "population",
       "elevation", "timezone" >>

ALT_COLUMNS == << "geoname_id", "name", "name_ascii", "is_preferred" >>

Feature(id, name, cls, code, lat, lng, country, admin1, admin2, pop) ==
    [geoname_id |-> id, name |-> name, name_ascii |-> name,
     feature_class |-> cls, feature_code |-> code,
     latitude |-> lat, longitude |-> lng,
     country |-> country, admin1 |-> admin1, admin2 |-> admin2,
     population |-> pop, elevation |-> 0, timezone |-> None,
     modification_date |-> "2024-01-01", search_tokens |-> name,
     grid_lat |-> lat \div 1000, grid_lng |-> lng \div 1000]

\* The features a dataset of the model is drawn from.
Pool ==
    { Feature(1, "Seattle", "P", "PPL", 47606, -122332, "US", "WA", "King", 700000),
      Feature(2, "Cougar Mountain", "H", "LK", 47680, -122210, "US", "WA", "King", 0),
      Feature(3, "Portland", "P", "PPL", 45515, -122679, "US", "OR", "Multnomah", 600000),
      Feature(4, "Taveuni", "T", "ISL", -16800, -179950, "FJ", "03", None, 0),
      Feature(5, "Polar Station", None, None, 89980, 180000, None, None, None, 0),
      Feature(6, "Unincorporated", "P", "PPL", 47610, -122340, "US", "", "", 0) }

Project(row, cols) == [c \in Range(cols) |-> row[c]]

Db(rows) ==
    [kind |-> "db", tables |-> {"features", "metadata"},
     features |-> {Project(r, LITE_COLUMNS) : r \in rows},
     metadata |-> {}, alternate_names |-> {}]

(***************************************************************************)
(* Geometry.                                                               *)
(***************************************************************************)
Max(a, b) == IF a >= b THEN a ELSE b
Min(a, b) == IF a <= b THEN a ELSE b

\* math.cos(math.radians(lat)) in millionths, at the latitudes the model
\* queries.
CosMicro(lat) ==
    CASE lat = 47600 -> 674302
      [] lat = -16800 -> 957319
      [] lat = 89950 -> 873

\* _bounding_box: radius_km / 111.0 degrees of latitude and
\* radius_km / (111.0 * max(cos(lat), 1e-6)) degrees of longitude, in
\* millidegrees rounded down (coordinates are whole millidegrees, so the
\* BETWEEN tests against the box are decided as with the exact bounds).
BoundingBox(lat, lng, radius_km) ==
    LET lat_radius == (radius_km * 1000) \div KM_PER_DEGREE
        cos_lat == Max(CosMicro(lat), COS_FLOOR_MICRO)
        lng_radius ==
            (((radius_km * 1000000) \div KM_PER_DEGREE) * 1000) \div cos_lat
    IN  [lat_min |-> lat - lat_radius, lat_max |-> lat + lat_radius,
         lng_min |-> lng - lng_radius, lng_max |-> lng + lng_radius]

\* _haversine_km evaluated at the (query point, feature point) pairs of the
\* model, in metres rounded up.
HaversineM(lat1, lng1, lat2, lng2) ==
    CASE lat1 = 47600 /\ lng1 = -122330 /\ lat2 = 47606 /\ lng2 = -122332 -> 684
      [] lat1 = 47600 /\ lng1 = -122330 /\ lat2 = 47680 /\ lng2 = -122210 -> 12648
      [] lat1 = 47600 /\ lng1 = -122330 /\ lat2 = 45515 /\ lng2 = -122679 -> 233372
      [] lat1 = 47600 /\ lng1 = -122330 /\ lat2 = -16800 /\ lng2 = -179950 -> 9162432
      [] lat1 = 47600 /\ lng1 = -122330 /\ lat2 = 89980 /\ lng2 = 180000 -> 4713476
      [] lat1 = 47600 /\ lng1 = -122330 /\ lat2 = 47610 /\ lng2 = -122340 -> 1342
      [] lat1 = -16800 /\ lng1 = 179900 /\ lat2 = 47606 /\ lng2 = -122332 -> 9171875
      [] lat1 = -16800 /\ lng1 = 179900 /\ lat2 = 47680 /\ lng2 = -122210 -> 9184086
      [] lat1 = -16800 /\ lng1 = 179900 /\ lat2 = 45515 /\ lng2 = -122679 -> 9016019
      [] lat1 = -16800 /\ lng1 = 179900 /\ lat2 = -16800 /\ lng2 = -179950 -> 15968
      [] lat1 = -16800 /\ lng1 = 179900 /\ lat2 = 89980 /\ lng2 = 180000 -> 11873395
      [] lat1 = -16800 /\ lng1 = 179900 /\ lat2 = 47610 /\ lng2 = -122340 -> 9171642
      [] lat1 = 89950 /\ lng1 = 0 /\ lat2 = 47606 /\ lng2 = -122332 -> 4716974
      [] lat1 = 89950 /\ lng1 = 0 /\ lat2 = 47680 /\ lng2 = -122210 -> 4708735
      [] lat1 = 89950 /\ lng1 = 0 /\ lat2 = 45515 /\ lng2 = -122679 -> 4949510
      [] lat1 = 89950 /\ lng1 = 0 /\ lat2 = -16800 /\ lng2 = -179950 -> 11881178
      [] lat1 = 89950 /\ lng1 = 0 /\ lat2 = 89980 /\ lng2 = 180000 -> 7784
      [] lat1 = 89950 /\ lng1 = 0 /\ lat2 = 47610 /\ lng2 = -122340 -> 4716529
      [] lat1 = -16800 /\ lng1 = -179900 /\ lat2 = 47606 /\ lng2 = -122332 -> 9159639
      [] lat1 = -16800 /\ lng1 = -179900 /\ lat2 = 47680 /\ lng2 = -122210 -> 9171855
      [] lat1 = -16800 /\ lng1 = -179900 /\ lat2 = 45515 /\ lng2 = -122679 -> 9003307
      [] lat1 = -16800 /\ lng1 = -179900 /\ lat2 = -16800 /\ lng2 = -179950 -> 5323
      [] lat1 = -16800 /\ lng1 = -179900 /\ lat2 = 89980 /\ lng2 = 180000 -> 11873395
      [] lat1 = -16800 /\ lng1 = -179900 /\ lat2 = 47610 /\ lng2 = -122340 -> 9159408

(***************************************************************************)
(* Python and SQL helpers.                                                 *)
(***************************************************************************)
\* sep.join(parts)
RECURSIVE Join(_, _)
Join(parts, sep) ==
    IF parts = <<>> THEN ""
    ELSE IF Len(parts) = 1 THEN parts[1]
    ELSE parts[1] \o sep \o Join(Tail(parts), sep)

\* ",".join("?" for _ in codes)
Placeholders(n) == Join([i \in 1..n |-> "?"], ",")

\* An Optional[Iterable[str]] argument: not given (None), or a list.
NoCodes == [given |-> FALSE, items |-> <<>>]
CodeList(items) == [given |-> TRUE, items |-> items]
CodesTruthy(feature_codes) == feature_codes.given /\ Len(feature_codes.items) > 0

\* A bound parameter of a query: an integer or a string.
IntParam(n) == [type |-> "int", int |-> n, str |-> ""]
StrParam(s) == [type |-> "str", int |-> 0, str |-> s]
StrParams(items) == [i \in 1..Len(items) |-> StrParam(items[i])]

\* SQL: feature_class || '.' || feature_code, NULL when either part is.
ClassCode(row) ==
    IF row.feature_class = None \/ row.feature_code = None THEN None
    ELSE row.feature_class \o "." \o row.feature_code

\* SQL: x IN (items); NULL IN (...) is not true.
SqlIn(x, items) == x # None /\ x \in Range(items)

\* SQL: column = ?; NULL = ? is not true.
SqlEq(x, value) == x # None /\ x = value

\* The rows of a SELECT in the order a table scan yields them (by rowid,
\* the integer primary key).  Along the (latitude, longitude) index rows
\* with equal coordinates come in rowid order as well, and only such rows
\* have equal distances from a query point.
Fetchall(rows) ==
    The({ [i \in 1..Cardinality(table) |->
              CHOOSE r \in table :
                  Cardinality({o \in table : o.geoname_id < r.geoname_id}) = i - 1]
          : table \in {rows} })

\* The outcome of a call: the exception raised ("none": it returned), the
\* value returned, the text and the bound parameters of the query it
\* issued, and the database path it connected to.
Outcome(exc, value, sql, params, path) ==
    [exc |-> exc, value |-> value, sql |-> sql, params |-> params, path |-> path]

(***************************************************************************)
(* Dataset locator.                                                        *)
(***************************************************************************)
RECURSIVE FirstExisting(_, _)
FirstExisting(files, candidates) ==
    IF candidates = <<>> THEN None
    ELSE IF Exists(files, candidates[1]) THEN candidates[1]
    ELSE FirstExisting(files, Tail(candidates))

\* The silent fallback the locator does not have: a missing override is
\* passed over for the built-in candidates.
ResolveWithFallback(files, env_value, candidates) ==
    LET found == FirstExisting(files, candidates)
    IN  IF Truthy(env_value) /\ Exists(files, env_value)
        THEN [exc |-> "none", path |-> env_value, named |-> env_value]
        ELSE IF found # None
        THEN [exc |-> "none", path |-> found, named |-> found]
        ELSE [exc |-> "GeoNamesDatasetNotFound", path |-> None, named |-> None]

Resolve(files, env_value, candidates) ==
    IF Truthy(env_value)
    THEN IF Exists(files, env_value)
         THEN [exc |-> "none", path |-> env_value, named |-> env_value]
         ELSE [exc |-> "GeoNamesDatasetNotFound", path |-> None, named |-> env_value]
    ELSE LET found == FirstExisting(files, candidates)
         IN  IF found # None
             THEN [exc |-> "none", path |-> found, named |-> found]
             ELSE [exc |-> "GeoNamesDatasetNotFound", path |-> None, named |-> None]

resolve_dataset_path(files, environ) ==
    Resolve(files, environ.DALITRAIL_GEONAMES_DB, DEFAULT_DATASET_PATHS)

resolve_master_dataset_path(files, environ) ==
    Resolve(files, environ.DALITRAIL_GEONAMES_MASTER_DB, DEFAULT_MASTER_CANDIDATES)

\* What a SELECT on table features of the database at path raises, after
\* sqlite3.connect has created the file when it was missing.
SelectError(files, path) ==
    IF files[path].kind = "garbage" THEN "sqlite3.DatabaseError"
    ELSE IF "features" \notin files[path].tables THEN "sqlite3.OperationalError"
    ELSE "none"

\* sqlite3.connect(path): creates an empty database when path is missing.
Connect(files, path) ==
    IF Exists(files, path) THEN files ELSE [files EXCEPT ![path] = EmptyDb]

(***************************************************************************)
(* Nearby search: fetch_nearby_features.                                   *)
(***************************************************************************)
NearbyFeature(row, distance) ==
    [geoname_id |-> row.geoname_id, name |-> row.name,
     latitude |-> row.latitude, longitude |-> row.longitude,
     feature_class |-> row.feature_class, feature_code |-> row.feature_code,
     country |-> row.country, admin1 |-> row.admin1, admin2 |-> row.admin2,
     population |-> row.population, elevation |-> row.elevation,
     timezone |-> row.timezone, distance_m |-> distance]

\* features.sort(key=distance_km): stable.
RECURSIVE SortByDistance(_)
SortByDistance(features) ==
    IF features = <<>> THEN <<>>
    ELSE LET n == Len(features)
             x == features[n]
             sorted == SortByDistance(SubSeq(features, 1, n - 1))
             keep == {i \in 1..Len(sorted) : sorted[i].distance_m <= x.distance_m}
             k == Cardinality(keep)
         IN  SubSeq(sorted, 1, k) \o <<x>> \o SubSeq(sorted, k + 1, Len(sorted))

\* features[:limit]
Truncate(features, limit) == SubSeq(features, 1, Min(limit, Len(features)))

\* The WHERE clause of the search and the rows it selects.
NearbyFilters(feature_codes) ==
    <<"latitude BETWEEN ? AND ?", "longitude BETWEEN ? AND ?">>
        \o (IF CodesTruthy(feature_codes)
            THEN <<"(feature_class || '.' || feature_code) IN ("
                       \o Placeholders(Len(feature_codes.items)) \o ")">>
            ELSE <<>>)

NearbyQuery(feature_codes) ==
    "SELECT geoname_id, name, latitude, longitude, feature_class, feature_code, "
        \o "country, admin1, admin2, population, elevation, timezone "
        \o "FROM features WHERE " \o Join(NearbyFilters(feature_codes), " AND ")

NearbyParams(box, feature_codes) ==
    <<IntParam(box.lat_min), IntParam(box.lat_max),
      IntParam(box.lng_min), IntParam(box.lng_max)>>
        \o (IF CodesTruthy(feature_codes) THEN StrParams(feature_codes.items)
            ELSE <<>>)

\* NearbyCandidates without the clause on the compound code.
NearbyCandidatesAnyCode(rows, box, feature_codes) ==
    {r \in rows :
        /\ box.lat_min <= r.latitude /\ r.latitude <= box.lat_max
        /\ box.lng_min <= r.longitude /\ r.longitude <= box.lng_max}

NearbyCandidates(rows, box, feature_codes) ==
    {r \in rows :
        /\ box.lat_min <= r.latitude /\ r.latitude <= box.lat_max
        /\ box.lng_min <= r.longitude /\ r.longitude <= box.lng_max
        /\ CodesTruthy(feature_codes) => SqlIn(ClassCode(r), feature_codes.items)}

\* WithinRadius without the test of the exact distance.
WithinRadiusUnfiltered(rows, lat, lng, radius_km) ==
    [i \in 1..Len(rows) |->
        NearbyFeature(rows[i],
            HaversineM(lat, lng, rows[i].latitude, rows[i].longitude))]

\* The post-filter by exact distance, in row order.
WithinRadius(rows, lat, lng, radius_km) ==
    LET annotated == [i \in 1..Len(rows) |->
                        NearbyFeature(rows[i],
                            HaversineM(lat, lng, rows[i].latitude, rows[i].longitude))]
    IN  SelectSeq(annotated, LAMBDA f : f.distance_m <= radius_km * 1000)

\* ArgumentError without the upper end of the range of limit.
ArgumentErrorNoUpper(radius_km, limit) ==
    IF radius_km <= 0 THEN "ValueError"
    ELSE IF ~(LIMIT_MIN <= limit) THEN "ValueError"
    ELSE "none"

ArgumentError(radius_km, limit) ==
    IF radius_km <= 0 THEN "ValueError"
    ELSE IF ~(LIMIT_MIN <= limit /\ limit <= LIMIT_MAX) THEN "ValueError"
    ELSE "none"

fetch_nearby_features(files, environ, lat, lng, radius_km, limit, feature_codes, db_path) ==
    IF ArgumentError(radius_km, limit) # "none"
    THEN Outcome(ArgumentError(radius_km, limit), <<>>, "", <<>>, None)
    ELSE
    LET located == IF db_path # None
                   THEN [exc |-> "none", path |-> db_path, named |-> db_path]
                   ELSE resolve_dataset_path(files, environ)
    IN
    IF located.exc # "none"
    THEN Outcome(located.exc, <<>>, "", <<>>, None)
    ELSE
    LET box == BoundingBox(lat, lng, radius_km)
        sql == NearbyQuery(feature_codes)
        params == NearbyParams(box, feature_codes)
        opened == Connect(files, located.path)
        failed == SelectError(opened, located.path)
    IN
    IF failed # "none"
    THEN Outcome(failed, <<>>, sql, params, located.path)
    ELSE
    LET rows == Fetchall(
                    NearbyCandidates(opened[located.path].features, box, feature_codes))
        features == WithinRadius(rows, lat, lng, radius_km)
    IN  Outcome("none", Truncate(SortByDistance(features), limit), sql, params,
                located.path)

FetchNearby(lat, lng, radius_km, limit, feature_codes, db_path) ==
    \E out \in {fetch_nearby_features(fs, env, lat, lng, radius_km, limit,
                                      feature_codes, db_path)} :
        /\ ret' = [op |-> "fetch_nearby_features",
                   args |-> [lat |-> lat, lng |-> lng, radius_km |-> radius_km,
                             limit |-> limit, feature_codes |-> feature_codes,
                             db_path |-> db_path],
                   exc |-> out.exc, value |-> out.value, num |-> 0,
                   sql |-> out.sql,
                   params |-> out.params, path |-> out.path, log |-> <<>>]
        /\ fs' = IF out.path = None THEN fs ELSE Connect(fs, out.path)
        /\ UNCHANGED <<env, clock, inflight>>

(***************************************************************************)
(* Initial states: a deployment.  The master holds a subset of Pool, its   *)
(* alternate names and its own metadata; the active lite dataset holds a   *)
(* subset of Pool; each dataset may sit at any of the paths the locator    *)
(* probes, and the overrides may be set or not.                            *)
(***************************************************************************)
AlternateNames ==
    { [geoname_id |-> 1, name |-> "Emerald City", name_ascii |-> "Emerald City",
       is_preferred |-> 0],
      [geoname_id |-> 1, name |-> "Sea-Town", name_ascii |-> "Sea-Town",
       is_preferred |-> 1],
      [geoname_id |-> 3, name |-> "Rose City", name_ascii |-> "Rose City",
       is_preferred |-> 0],
      [geoname_id |-> 4, name |-> "Garden Island", name_ascii |-> "Garden Island",
       is_preferred |-> 0] }

MasterMetadata ==
    { <<"source", "geonames.org">>, <<"lite_filter", "master">> }

MasterDb(rows) ==
    [kind |-> "db", tables |-> {"features", "metadata", "alternate_names"},
     features |-> rows,
     metadata |-> MasterMetadata,
     alternate_names |->
        {a \in AlternateNames : \E r \in rows : r.geoname_id = a.geoname_id}]

NoFiles == [p \in Paths |-> Absent]

NoRet ==
    [op |-> "none", args |-> <<>>, exc |-> "none", value |-> <<>>, num |-> 0, sql |-> "",
     params |-> <<>>, path |-> None, log |-> <<>>]

Environ(lite, master) ==
    [DALITRAIL_GEONAMES_DB |-> lite, DALITRAIL_GEONAMES_MASTER_DB |-> master]

LitePaths == Range(DEFAULT_DATASET_PATHS) \cup {EnvLitePath}
MasterPaths == Range(DEFAULT_MASTER_CANDIDATES) \cup {EnvMasterPath}

\* No override, the master at its first built-in path: every content of
\* the active lite dataset.
LiteContents ==
    /\ env = Environ(None, None)
    /\ \E lite \in SUBSET Pool :
          fs = [NoFiles EXCEPT
                  ![DEFAULT_DATASET_PATHS[1]] = Db(lite),
                  ![DEFAULT_MASTER_CANDIDATES[1]] = MasterDb(Pool)]

\* The same for the master.
MasterContents ==
    /\ env = Environ(None, None)
    /\ \E master \in SUBSET Pool :
          fs = [NoFiles EXCEPT
                  ![DEFAULT_DATASET_PATHS[1]] = Db(Pool),
                  ![DEFAULT_MASTER_CANDIDATES[1]] = MasterDb(master)]

\* Every layout of the lite paths: the override unset, empty or set, and
\* each probed path absent or a dataset (the first one possibly unreadable).
LiteLayouts ==
    /\ \E lite \in {None, "", EnvLitePath} : env = Environ(lite, None)
    /\ \E present \in SUBSET LitePaths, unreadable \in BOOLEAN :
          fs = [p \in Paths |->
                  IF p = DEFAULT_DATASET_PATHS[1] /\ unreadable THEN Garbage
                  ELSE IF p \in present THEN Db(Pool)
                  ELSE IF p = DEFAULT_MASTER_CANDIDATES[1] THEN MasterDb(Pool)
                  ELSE Absent]

\* The same for the master paths.
MasterLayouts ==
    /\ \E master \in {None, "", EnvMasterPath} : env = Environ(None, master)
    /\ \E present \in SUBSET MasterPaths, unreadable \in BOOLEAN :
          fs = [p \in Paths |->
                  IF p = DEFAULT_MASTER_CANDIDATES[1] /\ unreadable THEN Garbage
                  ELSE IF p \in present THEN MasterDb(Pool)
                  ELSE IF p = DEFAULT_DATASET_PATHS[1] THEN Db(Pool)
                  ELSE Absent]

Init ==
    /\ clock = 0
    /\ ret = NoRet
    /\ inflight = {}
    /\ LiteContents \/ MasterContents \/ LiteLayouts \/ MasterLayouts

(***************************************************************************)
(* The nearby search on its own: one call on a deployment.                 *)
(***************************************************************************)
QueryPoints ==
    { <<47600, -122330>>, <<-16800, 179900>>, <<-16800, -179900>>, <<89950, 0>> }
Radii == {-1, 0, 10, 50, 235}
Limits == {0, 1, 2, LIMIT_MAX, LIMIT_MAX + 1}
CodeArgs ==
    { NoCodes, CodeList(<<>>), CodeList(<<"P.PPL">>), CodeList(<<"H.LK", "T.ISL">>) }

SearchInit ==
    /\ clock = 0
    /\ ret = NoRet
    /\ inflight = {}
    /\ LiteContents \/ LiteLayouts

SearchNext ==
    /\ ret.op = "none"
    /\ \E q \in QueryPoints, radius_km \in Radii, limit \in Limits,
          feature_codes \in CodeArgs, db_path \in {None, EnvLitePath, "out/a.db"} :
            FetchNearby(q[1], q[2], radius_km, limit, feature_codes, db_path)

SearchSpec == SearchInit /\ [][SearchNext]_vars

(***************************************************************************)
(* Claims about the nearby search.                                         *)
(***************************************************************************)
SearchReturned == ret.op = "fetch_nearby_features" /\ ret.exc = "none"

\* The haversine distance of a returned feature or a dataset row from the
\* query point of the last search, in metres.
DistanceOf(f) ==
    HaversineM(ret.args.lat, ret.args.lng, f.latitude, f.longitude)

\* The rows of the dataset the last search read.
SearchedRows == fs[ret.path].features

\* C1: a search that returns yields at most `limit` features, each within
\* radiusKm of the query point by the haversine distance, in ascending
\* order of that distance.
C1_BoundedWithinRadiusSorted ==
    SearchReturned =>
        /\ Len(ret.value) <= ret.args.limit
        /\ \A i \in 1..Len(ret.value) :
              DistanceOf(ret.value[i]) <= ret.args.radius_km * 1000
        /\ \A i, j \in 1..Len(ret.value) :
              i < j => DistanceOf(ret.value[i]) <= DistanceOf(ret.value[j])

\* A search cut by its limit on a dataset that also holds a feature inside
\* the bounding box and outside the radius.
C1_Witness ==
    /\ SearchReturned
    /\ Len(ret.value) = ret.args.limit
    /\ Cardinality({r \in SearchedRows :
                      DistanceOf(r) <= ret.args.radius_km * 1000}) > ret.args.limit
    /\ \E r \in NearbyCandidates(SearchedRows,
                    BoundingBox(ret.args.lat, ret.args.lng, ret.args.radius_km),
                    ret.args.feature_codes) :
          DistanceOf(r) > ret.args.radius_km * 1000

InvalidSearchArguments ==
    /\ ret.op = "fetch_nearby_features"
    /\ \/ ret.args.radius_km <= 0
       \/ ret.args.limit < 1
       \/ ret.args.limit > 200

\* C2: a search with limit outside [1,200] or radiusKm <= 0 fails with
\* ValueError whatever the state of the dataset, without resolving,
\* opening or querying it.
C2_InvalidArgumentFirst ==
    InvalidSearchArguments =>
        /\ ret.exc = "ValueError"
        /\ ret.path = None
        /\ ret.sql = ""

\* An invalid call (limit above 200, valid radius) while the locator finds
\* no dataset.
C2_Witness ==
    /\ InvalidSearchArguments
    /\ ret.args.limit > 200 /\ ret.args.radius_km > 0
    /\ ret.args.db_path = None
    /\ resolve_dataset_path(fs, env).exc = "GeoNamesDatasetNotFound"
    /\ ret.exc = "ValueError"

\* The rows of the searched dataset within the radius that pass the filter
\* on the compound code.
TrueMatches ==
    {r \in SearchedRows :
        /\ DistanceOf(r) <= ret.args.radius_km * 1000
        /\ CodesTruthy(ret.args.feature_codes) =>
              SqlIn(ClassCode(r), ret.args.feature_codes.items)}

ReturnedIds == {ret.value[i].geoname_id : i \in 1..Len(ret.value)}

\* C3: a search that returns yields exactly the min(limit, k) nearest of
\* the k dataset features within radiusKm that match the code filter, for
\* every query point (the bounding box never loses a feature of the radius).
C3_ClosestWithinRadius ==
    SearchReturned =>
        /\ ReturnedIds \subseteq {r.geoname_id : r \in TrueMatches}
        /\ Len(ret.value) = Min(ret.args.limit, Cardinality(TrueMatches))
        /\ \A r \in TrueMatches :
              r.geoname_id \notin ReturnedIds =>
                 \A i \in 1..Len(ret.value) :
                    DistanceOf(ret.value[i]) <= DistanceOf(r)

\* C4: with a non-empty featureCodes every returned feature's CLASS.CODE
\* is one of featureCodes; with featureCodes absent or empty no row of the
\* candidate box within the radius is left out for its class or code (a
\* row left out is cut by the limit, behind nearer ones).
C4_FeatureCodeAllowList ==
    SearchReturned =>
        /\ CodesTruthy(ret.args.feature_codes) =>
              \A i \in 1..Len(ret.value) :
                 /\ ret.value[i].feature_class # None
                 /\ ret.value[i].feature_code # None
                 /\ (ret.value[i].feature_class \o "." \o ret.value[i].feature_code)
                        \in Range(ret.args.feature_codes.items)
        /\ ~CodesTruthy(ret.args.feature_codes) =>
              \A r \in NearbyCandidatesAnyCode(SearchedRows,
                          BoundingBox(ret.args.lat, ret.args.lng, ret.args.radius_km),
                          ret.args.feature_codes) :
                 (DistanceOf(r) <= ret.args.radius_km * 1000
                    /\ r.geoname_id \notin ReturnedIds)
                 => /\ Len(ret.value) = ret.args.limit
                    /\ \A i \in 1..Len(ret.value) :
                          DistanceOf(ret.value[i]) <= DistanceOf(r)

\* A search with a non-empty allow-list that returns a feature and leaves
\* out a nearer-than-radius feature of another code.
C4_Witness ==
    /\ SearchReturned
    /\ CodesTruthy(ret.args.feature_codes)
    /\ Len(ret.value) > 0
    /\ \E r \in SearchedRows :
          /\ DistanceOf(r) <= ret.args.radius_km * 1000
          /\ ~SqlIn(ClassCode(r), ret.args.feature_codes.items)
          /\ r.geoname_id \notin ReturnedIds

\* A search without a code filter that returns a feature whose class and
\* code are null.
C4_WitnessNullCode ==
    /\ SearchReturned
    /\ ret.args.feature_codes = CodeList(<<>>)
    /\ \E i \in 1..Len(ret.value) : ret.value[i].feature_class = None

(***************************************************************************)
(* Subset builder: build_lite_dataset.                                     *)
(***************************************************************************)
\* INSERT OR REPLACE INTO metadata(key, value)
RECURSIVE Upsert(_, _)
Upsert(metadata, items) ==
    IF items = <<>> THEN metadata
    ELSE Upsert({m \in metadata : m[1] # items[1][1]} \cup {items[1]}, Tail(items))

\* build_filter_label
build_filter_label(country, admin1, admin2, feature_codes) ==
    LET bits ==
            (IF Truthy(country) THEN <<"country=" \o country>> ELSE <<>>)
         \o (IF Truthy(admin1) THEN <<"admin1=" \o admin1>> ELSE <<>>)
         \o (IF Truthy(admin2) THEN <<"admin2=" \o admin2>> ELSE <<>>)
         \o (IF CodesTruthy(feature_codes)
             THEN <<"codes=" \o Join(feature_codes.items, ",")>> ELSE <<>>)
    IN  IF bits = <<>> THEN "all" ELSE Join(bits, ";")

\* datetime.now(timezone.utc).isoformat() at time now
IsoFormat(now) == "2026-01-01T00:00:0" \o ToString(now) \o "+00:00"

\* The clauses of the WHERE of build_lite_dataset, in order.
LiteFilters(country, admin1, admin2, feature_codes) ==
       (IF Truthy(country) THEN <<"country = ?">> ELSE <<>>)
    \o (IF Truthy(admin1) THEN <<"admin1 = ?">> ELSE <<>>)
    \o (IF Truthy(admin2) THEN <<"admin2 = ?">> ELSE <<>>)
    \o (IF CodesTruthy(feature_codes)
        THEN <<"(feature_class || '.' || feature_code) IN ("
                   \o Placeholders(Len(feature_codes.items)) \o ")">>
        ELSE <<>>)

LiteParams(country, admin1, admin2, feature_codes) ==
       (IF Truthy(country) THEN <<StrParam(country)>> ELSE <<>>)
    \o (IF Truthy(admin1) THEN <<StrParam(admin1)>> ELSE <<>>)
    \o (IF Truthy(admin2) THEN <<StrParam(admin2)>> ELSE <<>>)
    \o (IF CodesTruthy(feature_codes) THEN StrParams(feature_codes.items) ELSE <<>>)

LiteQuery(country, admin1, admin2, feature_codes) ==
    LET filters == LiteFilters(country, admin1, admin2, feature_codes)
        where_sql == IF filters # <<>> THEN " WHERE " \o Join(filters, " AND ")
                     ELSE ""
    IN  "SELECT geoname_id, name, latitude, longitude, feature_class, feature_code, "
            \o "country, admin1, admin2, population, elevation, timezone "
            \o "FROM features" \o where_sql

\* LiteSelected with the clause on admin1 left out.
LiteSelectedNoAdmin1(rows, country, admin1, admin2, feature_codes) ==
    {r \in rows :
        /\ Truthy(country) => SqlEq(r.country, country)
        /\ Truthy(admin2) => SqlEq(r.admin2, admin2)
        /\ CodesTruthy(feature_codes) => SqlIn(ClassCode(r), feature_codes.items)}

\* The master rows the query selects.
LiteSelected(rows, country, admin1, admin2, feature_codes) ==
    {r \in rows :
        /\ Truthy(country) => SqlEq(r.country, country)
        /\ Truthy(admin1) => SqlEq(r.admin1, admin1)
        /\ Truthy(admin2) => SqlEq(r.admin2, admin2)
        /\ CodesTruthy(feature_codes) => SqlIn(ClassCode(r), feature_codes.items)}

\* out_path.stat().st_size: pages of the tables and the indexes.
FileSize(file) == 4096 * (5 + Cardinality(file.features))

\* The output right after its tables are created.
LiteSchema ==
    [kind |-> "db", tables |-> {"features", "metadata"}, features |-> {},
     metadata |-> {}, alternate_names |-> {}]

\* RemoveOutput that leaves an existing output in place.
KeepOutput(files, out_path) == files

\* if out_path.exists(): out_path.unlink()
RemoveOutput(files, out_path) ==
    IF Exists(files, out_path) THEN [files EXCEPT ![out_path] = Absent] ELSE files

\* sqlite3.connect(str(out_path), isolation_level=None): autocommit.  The
\* default of the sqlite3 module is "" (deferred transactions).
DeferredIsolationLevel == ""
LiteIsolationLevel == None

\* The statements build_lite_dataset runs on the output connection, in
\* the order of the source.
Statement(text, via, kind, writes) ==
    [text |-> text, via |-> via, kind |-> kind, writes |-> writes]

LiteStatements ==
    << Statement("PRAGMA journal_mode=OFF", "execute", "pragma", "none"),
       Statement("PRAGMA synchronous=OFF", "execute", "pragma", "none"),
       Statement("PRAGMA temp_store=MEMORY", "execute", "pragma", "none"),
       Statement("CREATE TABLE features; CREATE TABLE metadata",
                 "executescript", "ddl", "schema"),
       Statement("INSERT INTO features", "executemany", "dml", "features"),
       Statement("CREATE INDEX idx_features_lat_lng; CREATE INDEX idx_features_class_code",
                 "executescript", "ddl", "indexes"),
       Statement("INSERT OR REPLACE INTO metadata", "executemany", "dml", "metadata"),
       Statement("VACUUM", "execute", "vacuum", "none") >>

\* A connection of the sqlite3 module: whether a transaction is open, the
\* writes pending in it and the writes committed.
NewConnection == [in_transaction |-> FALSE, pending |-> {}, committed |-> {}]

\* One statement on a connection with the given isolation level.  With a
\* level other than None the module opens a transaction before a DML
\* statement and executescript commits the open transaction first; SQLite
\* refuses VACUUM inside a transaction.  The entry records the statement,
\* whether it ran inside a transaction, and the connection after it.
ExecuteStatement(level, conn, st) ==
    LET implicit == level # None
        committed_first == implicit /\ st.via = "executescript" /\ conn.in_transaction
        begun == implicit /\ st.kind = "dml" /\ ~conn.in_transaction
        inside == IF committed_first THEN FALSE
                  ELSE conn.in_transaction \/ begun
        before == IF committed_first
                  THEN [in_transaction |-> FALSE, pending |-> {},
                        committed |-> conn.committed \cup conn.pending]
                  ELSE conn
        wrote == IF st.writes = "none" THEN {} ELSE {st.writes}
    IN  IF st.kind = "vacuum" /\ inside
        THEN [text |-> st.text, kind |-> st.kind, inside |-> inside,
              exc |-> "sqlite3.OperationalError",
              in_transaction |-> inside, pending |-> before.pending,
              committed |-> before.committed]
        ELSE [text |-> st.text, kind |-> st.kind, inside |-> inside,
              exc |-> "none",
              in_transaction |-> inside,
              pending |-> IF inside THEN before.pending \cup wrote
                          ELSE before.pending,
              committed |-> IF inside THEN before.committed
                            ELSE before.committed \cup wrote]

\* The statements in order, up to the first that fails.
RECURSIVE RunStatements(_, _, _)
RunStatements(level, conn, statements) ==
    IF statements = <<>> THEN <<>>
    ELSE The({ IF e.exc # "none" THEN <<e>>
               ELSE <<e>> \o RunStatements(level,
                                 [in_transaction |-> e.in_transaction,
                                  pending |-> e.pending,
                                  committed |-> e.committed],
                                 Tail(statements))
               : e \in {ExecuteStatement(level, conn, Head(statements))} })

\* The end of the with block: commit if the block returned, rollback if it
\* raised.
Persisted(log) ==
    LET last == log[Len(log)]
    IN  IF last.exc = "none" THEN last.committed \cup last.pending
        ELSE last.committed

\* The master path a build reads: master_db, or the locator's.
MasterSource(files, environ, master_db) ==
    IF master_db # None
    THEN [exc |-> "none", path |-> master_db, named |-> master_db]
    ELSE resolve_master_dataset_path(files, environ)

\* build_lite_dataset: the outcome and the file system it leaves.
build_lite_dataset(files, environ, now, out_path, country, admin1, admin2, feature_codes, label, master_db) ==
    LET located == MasterSource(files, environ, master_db)
    IN
    IF located.exc # "none"
    THEN [out |-> Outcome(located.exc, 0, "", <<>>, None), files |-> files,
          log |-> <<>>]
    ELSE
    LET removed == RemoveOutput(files, out_path)
        sql == LiteQuery(country, admin1, admin2, feature_codes)
        params == LiteParams(country, admin1, admin2, feature_codes)
        \* with sqlite3.connect(out_path) as lite, _connect(src_path) as src
        connected == Connect(Connect(removed, out_path), located.path)
        \* CREATE TABLE features, CREATE TABLE metadata
        created ==
            IF connected[out_path].kind = "garbage" THEN "sqlite3.DatabaseError"
            ELSE IF connected[out_path].tables \cap {"features", "metadata"} # {}
                 THEN "sqlite3.OperationalError"
            ELSE "none"
    IN
    IF created # "none"
    THEN [out |-> Outcome(created, 0, sql, params, located.path),
          files |-> connected,
          log |-> RunStatements(LiteIsolationLevel, NewConnection,
                                SubSeq(LiteStatements, 1, 3))]
    ELSE
    LET schema == [connected EXCEPT ![out_path] = LiteSchema]
        failed == SelectError(schema, located.path)
    IN
    IF failed # "none"
    THEN [out |-> Outcome(failed, 0, sql, params, located.path), files |-> schema,
          log |-> RunStatements(LiteIsolationLevel, NewConnection,
                                SubSeq(LiteStatements, 1, 4))]
    ELSE
    LET selected == LiteSelected(schema[located.path].features,
                                 country, admin1, admin2, feature_codes)
        meta == << <<"lite_filter",
                     IF label # "" THEN label
                     ELSE build_filter_label(country, admin1, admin2, feature_codes)>>,
                   <<"lite_generated_at", IsoFormat(now)>> >>
        Finished(log) ==
            LET built == [LiteSchema EXCEPT
                            !.features =
                                IF "features" \in Persisted(log)
                                THEN {Project(r, LITE_COLUMNS) : r \in selected}
                                ELSE {},
                            !.metadata =
                                IF "metadata" \in Persisted(log)
                                THEN Upsert({}, meta) ELSE {}]
                exc == log[Len(log)].exc
            IN  [out |-> Outcome(exc, IF exc = "none" THEN FileSize(built) ELSE 0,
                                 sql, params, located.path),
                 files |-> [schema EXCEPT ![out_path] = built],
                 log |-> log]
    IN  The({ Finished(log) :
                log \in {RunStatements(LiteIsolationLevel, NewConnection,
                                       LiteStatements)} })

BuildLite(out_path, country, admin1, admin2, feature_codes, label, master_db) ==
    \E res \in {build_lite_dataset(fs, env, clock, out_path, country, admin1,
                                    admin2, feature_codes, label, master_db)} :
        /\ clock < MaxClock
        /\ ret' = [op |-> "build_lite_dataset",
                   args |-> [out_path |-> out_path, country |-> country,
                             admin1 |-> admin1, admin2 |-> admin2,
                             feature_codes |-> feature_codes, label |-> label,
                             master_db |-> master_db],
                   exc |-> res.out.exc, value |-> <<>>, num |-> res.out.value,
                   sql |-> res.out.sql, params |-> res.out.params,
                   path |-> res.out.path, log |-> res.log]
        /\ fs' = res.files
        /\ clock' = clock + 1
        /\ UNCHANGED <<env, inflight>>

(***************************************************************************)
(* Command-line builder: scripts/generate_lite_db.py.                      *)
(***************************************************************************)
CHUNK_SIZE == 800

\* str.strip() on the strings of the model.
Strip(s) ==
    CASE s = " " -> ""
      [] s = " US" -> "US"
      [] s = "FJ " -> "FJ"
      [] s = " wa " -> "wa"
      [] s = " P.PPL" -> "P.PPL"
      [] OTHER -> s

\* A comma-separated option: not given (None), or its text, held as the
\* pieces between the commas.
NoCsv == [given |-> FALSE, pieces |-> <<>>]
Csv(pieces) == [given |-> TRUE, pieces |-> pieces]

\* An optional integer option.
NoInt == [given |-> FALSE, n |-> 0]
SomeInt(n) == [given |-> TRUE, n |-> n]

\* split_csv: the stripped, non-empty pieces.
split_csv(value) ==
    IF ~value.given THEN <<>>
    ELSE SelectSeq([i \in 1..Len(value.pieces) |-> Strip(value.pieces[i])],
                   LAMBDA item : item # "")

\* The text of the option as typed.
CsvText(value) == Join(value.pieces, ",")

\* build_filters: the WHERE text, the bound parameters, the description.
build_filters(args) ==
    LET countries == split_csv(args.countries)
        feature_codes == split_csv(args.feature_codes)
        feature_classes == split_csv(args.feature_classes)
        parts ==
              (IF countries # <<>>
               THEN << [clause |-> "country IN (" \o Placeholders(Len(countries)) \o ")",
                        params |-> StrParams(countries),
                        descriptor |-> "countries=" \o Join(countries, ",")] >>
               ELSE <<>>)
           \o (IF feature_codes # <<>>
               THEN << [clause |-> "(feature_class || '.' || feature_code) IN ("
                                      \o Placeholders(Len(feature_codes)) \o ")",
                        params |-> StrParams(feature_codes),
                        descriptor |-> "feature_codes=" \o Join(feature_codes, ",")] >>
               ELSE <<>>)
           \o (IF feature_classes # <<>>
               THEN << [clause |-> "feature_class IN ("
                                      \o Placeholders(Len(feature_classes)) \o ")",
                        params |-> StrParams(feature_classes),
                        descriptor |-> "feature_classes=" \o Join(feature_classes, ",")] >>
               ELSE <<>>)
           \o (IF args.grid_lat_min.given
               THEN << [clause |-> "grid_lat >= ?",
                        params |-> <<IntParam(args.grid_lat_min.n)>>,
                        descriptor |-> "grid_lat_min=" \o ToString(args.grid_lat_min.n)] >>
               ELSE <<>>)
           \o (IF args.grid_lat_max.given
               THEN << [clause |-> "grid_lat <= ?",
                        params |-> <<IntParam(args.grid_lat_max.n)>>,
                        descriptor |-> "grid_lat_max=" \o ToString(args.grid_lat_max.n)] >>
               ELSE <<>>)
           \o (IF args.grid_lng_min.given
               THEN << [clause |-> "grid_lng >= ?",
                        params |-> <<IntParam(args.grid_lng_min.n)>>,
                        descriptor |-> "grid_lng_min=" \o ToString(args.grid_lng_min.n)] >>
               ELSE <<>>)
           \o (IF args.grid_lng_max.given
               THEN << [clause |-> "grid_lng <= ?",
                        params |-> <<IntParam(args.grid_lng_max.n)>>,
                        descriptor |-> "grid_lng_max=" \o ToString(args.grid_lng_max.n)] >>
               ELSE <<>>)
           \o (IF Truthy(args.where)
               THEN << [clause |-> "(" \o args.where \o ")",
                        params |-> <<>>,
                        descriptor |-> "where=" \o args.where] >>
               ELSE <<>>)
        clauses == [i \in 1..Len(parts) |-> parts[i].clause]
        descriptors == [i \in 1..Len(parts) |-> parts[i].descriptor]
        RECURSIVE Flatten(_)
        Flatten(ps) == IF ps = <<>> THEN <<>> ELSE ps[1].params \o Flatten(Tail(ps))
    IN  [filter_sql |-> IF clauses # <<>> THEN Join(clauses, " AND ") ELSE "1=1",
         params |-> Flatten(parts),
         description |-> IF descriptors # <<>> THEN Join(descriptors, "; ")
                         ELSE "all"]

\* The --where texts of the model and what SQLite makes of each.  The
\* text is pasted into the query, so it is parsed with it: the last one
\* closes the parenthesis and adds an OR, which every row satisfies.
WhereTexts == {"population > 0", "admin1 = 'WA'", "1=1) OR (1=1"}

\* The rows the query of copy_features selects (before LIMIT).
CliSelected(rows, args) ==
    LET countries == split_csv(args.countries)
        feature_codes == split_csv(args.feature_codes)
        feature_classes == split_csv(args.feature_classes)
        Bound(r) ==
            /\ countries # <<>> => SqlIn(r.country, countries)
            /\ feature_codes # <<>> => SqlIn(ClassCode(r), feature_codes)
            /\ feature_classes # <<>> => SqlIn(r.feature_class, feature_classes)
            /\ args.grid_lat_min.given => r.grid_lat >= args.grid_lat_min.n
            /\ args.grid_lat_max.given => r.grid_lat <= args.grid_lat_max.n
            /\ args.grid_lng_min.given => r.grid_lng >= args.grid_lng_min.n
            /\ args.grid_lng_max.given => r.grid_lng <= args.grid_lng_max.n
    IN  {r \in rows :
            CASE ~Truthy(args.where) -> Bound(r)
              [] args.where = "population > 0" -> Bound(r) /\ r.population > 0
              [] args.where = "admin1 = 'WA'" -> Bound(r) /\ SqlEq(r.admin1, "WA")
              [] args.where = "1=1) OR (1=1" -> TRUE}

\* copy_features: the query text, its parameters and the rows copied.
copy_features(rows, filter_sql, params, limit, args) ==
    LET limited == limit.given /\ limit.n > 0
    IN  The({ [sql |-> "SELECT " \o Join(FEATURE_COLUMNS, ", ")
                          \o " FROM features WHERE " \o filter_sql
                          \o (IF limited THEN " LIMIT ?" ELSE ""),
               params |-> params
                          \o (IF limited THEN <<IntParam(limit.n)>> ELSE <<>>),
               rows |-> IF limited
                        THEN SubSeq(selected, 1, Min(limit.n, Len(selected)))
                        ELSE selected,
               selected_ids |->
                  [i \in 1..(IF limited THEN Min(limit.n, Len(selected))
                             ELSE Len(selected)) |-> selected[i].geoname_id]]
              : selected \in {Fetchall(CliSelected(rows, args))} })

\* range(0, len(ids), chunk_size) without the last, shorter chunk.
ChunksWithoutRemainder(ids, chunk_size) ==
    [k \in 1..(Len(ids) \div chunk_size) |->
        SubSeq(ids, (k - 1) * chunk_size + 1, k * chunk_size)]

\* ids[start : start + chunk_size] for start in range(0, len(ids), chunk_size)
Chunks(ids, chunk_size) ==
    [k \in 1..((Len(ids) + chunk_size - 1) \div chunk_size) |->
        SubSeq(ids, (k - 1) * chunk_size + 1, Min(k * chunk_size, Len(ids)))]

\* The rows of a table in the order of their rowids.
TableRows(table) ==
    CHOOSE rows \in [1..Cardinality(table) -> table] : Range(rows) = table

\* SELECT ... FROM alternate_names WHERE geoname_id IN (chunk), and an
\* INSERT for each row of the answer, for the chunks from the k-th on.
RECURSIVE CopyChunks(_, _, _)
CopyChunks(alternate_names, chunks, k) ==
    IF k > Len(chunks) THEN <<>>
    ELSE The({ SelectSeq(alternate_names, LAMBDA a : a.geoname_id \in members)
               : members \in {Range(chunks[k])} })
         \o CopyChunks(alternate_names, chunks, k + 1)

\* copy_alternate_names: the rows inserted, chunk by chunk, from the rows
\* of the source table in rowid order.
copy_alternate_names(alternate_names, geoname_ids) ==
    IF geoname_ids = <<>> THEN <<>>
    ELSE The({ CopyChunks(alternate_names, chunks, 1)
               : chunks \in {Chunks(geoname_ids, CHUNK_SIZE)} })

\* dt.datetime.utcnow().isoformat(timespec="seconds") + "Z" at time now
IsoFormatZ(now) == "2026-01-01T00:00:0" \o ToString(now) \o "Z"

\* copy_metadata: the master's rows updated with the additions.
copy_metadata(src_rows, filter_description, source_path, now) ==
    Upsert(src_rows,
           << <<"lite_generated_at", IsoFormatZ(now)>>,
              <<"lite_filter", filter_description>>,
              <<"lite_source_db", source_path>> >>)

\* ensure_output without the test of the overwrite flag.
ensure_output_always(files, path, overwrite) ==
    [exc |-> "none", files |-> RemoveOutput(files, path)]

\* ensure_output
ensure_output(files, path, overwrite) ==
    IF Exists(files, path) /\ ~overwrite
    THEN [exc |-> "FileExistsError", files |-> files]
    ELSE [exc |-> "none", files |-> RemoveOutput(files, path)]

\* The output after create_schema.
CliSchema ==
    [kind |-> "db", tables |-> {"features", "metadata", "alternate_names"},
     features |-> {}, metadata |-> {}, alternate_names |-> {}]

\* main: the outcome and the file system it leaves.
generate_lite_db(files, now, args) ==
    IF ~Exists(files, args.source)
    THEN [out |-> Outcome("FileNotFoundError", 0, "", <<>>, None), files |-> files]
    ELSE
    LET ensured == ensure_output(files, args.output, args.overwrite)
    IN
    IF ensured.exc # "none"
    THEN [out |-> Outcome(ensured.exc, 0, "", <<>>, None), files |-> ensured.files]
    ELSE
    LET filters == build_filters(args)
        src == files[args.source]
        schema == [ensured.files EXCEPT ![args.output] = CliSchema]
        failed == SelectError(files, args.source)
        Copied(copy) ==
            IF failed # "none"
            THEN [out |-> Outcome(failed, 0, copy.sql, copy.params, args.source),
                  files |-> schema]
            ELSE
            LET copied == [CliSchema EXCEPT !.features = Range(copy.rows)]
                named == [copied EXCEPT !.alternate_names =
                            Range(copy_alternate_names(
                                      TableRows(src.alternate_names),
                                      copy.selected_ids))]
                built == [named EXCEPT !.metadata =
                            copy_metadata(src.metadata, filters.description,
                                          args.source, now)]
            IN
            IF copy.selected_ids # <<>> /\ "alternate_names" \notin src.tables
            THEN [out |-> Outcome("sqlite3.OperationalError", 0, copy.sql,
                                  copy.params, args.source),
                  files |-> [schema EXCEPT ![args.output] = copied]]
            ELSE IF "metadata" \notin src.tables
            THEN [out |-> Outcome("sqlite3.OperationalError", 0, copy.sql,
                                  copy.params, args.source),
                  files |-> [schema EXCEPT ![args.output] = named]]
            ELSE [out |-> Outcome("none", 0, copy.sql, copy.params, args.source),
                  files |-> [schema EXCEPT ![args.output] = built]]
    IN  The({ Copied(copy) :
                copy \in {copy_features(src.features, filters.filter_sql,
                                        filters.params, args.limit, args)} })

CliArgs(source, output, overwrite, countries, feature_codes, feature_classes, grid_lat_min, grid_lat_max, grid_lng_min, grid_lng_max, where, limit) ==
    [source |-> source, output |-> output, overwrite |-> overwrite,
     countries |-> countries, feature_codes |-> feature_codes,
     feature_classes |-> feature_classes,
     grid_lat_min |-> grid_lat_min, grid_lat_max |-> grid_lat_max,
     grid_lng_min |-> grid_lng_min, grid_lng_max |-> grid_lng_max,
     where |-> where, limit |-> limit]

GenerateLiteDb(args) ==
    \E res \in {generate_lite_db(fs, clock, args)} :
        /\ clock < MaxClock
        /\ ret' = [op |-> "generate_lite_db", args |-> args,
                   exc |-> res.out.exc, value |-> <<>>, num |-> res.out.value,
                   sql |-> res.out.sql, params |-> res.out.params,
                   path |-> res.out.path, log |-> <<>>]
        /\ fs' = res.files
        /\ clock' = clock + 1
        /\ UNCHANGED <<env, inflight>>

(***************************************************************************)
(* Network-facing build operation: main.build_geonames_lite.  The Query    *)
(* declarations (lengths of country, admin1, admin2, label) are enforced   *)
(* by the framework before the handler runs; the handler is modelled on    *)
(* values that pass them.                                                  *)
(***************************************************************************)
HTTP_OK == 200
HTTP_UNAVAILABLE == 503
HTTP_ERROR == 500

\* str.upper() on the strings of the model.
Upper(s) ==
    CASE s = "us" -> "US"
      [] s = "wa" -> "WA"
      [] s = "fj" -> "FJ"
      [] s = "WA-King" -> "WA-KING"
      [] OTHER -> s

\* _split_codes: None, or the stripped non-empty pieces when there are any.
_split_codes(raw) ==
    IF ~raw.given \/ CsvText(raw) = "" THEN NoCodes
    ELSE LET codes == SelectSeq(
                          [i \in 1..Len(raw.pieces) |-> Strip(raw.pieces[i])],
                          LAMBDA c : c # "")
         IN  IF codes = <<>> THEN NoCodes ELSE CodeList(codes)

\* The status of the response to a build that raised exc.
BuildStatus(exc) ==
    IF exc = "none" THEN HTTP_OK
    ELSE IF exc = "GeoNamesDatasetNotFound" THEN HTTP_UNAVAILABLE
    ELSE HTTP_ERROR

\* An unlink that removes nothing.
UnlinkNothing(files, path) == files

\* Path.unlink(missing_ok=True)
Unlink(files, path) == [files EXCEPT ![path] = Absent]

\* A temporary name given out again while a file of that name exists.
TempfilePathReused(files) == TempPaths

\* _tempfile_path: mkstemp creates a file under a name no file has.
_tempfile_path(files) == {p \in TempPaths : ~Exists(files, p)}

\* build_geonames_lite, up to the response it returns.  A successful
\* response leaves the temporary file on disk with a background task that
\* removes it once the response has been sent.
HttpBuildLite(tmp_path, country, admin1, admin2, feature_codes, label) ==
    LET ctry == Upper(Strip(country))
        a1 == IF Truthy(admin1) THEN Upper(Strip(admin1)) ELSE None
        a2 == IF Truthy(admin2) THEN Strip(admin2) ELSE None
        codes == _split_codes(feature_codes)
        \* _tempfile_path: mkstemp creates the empty file
        made == [fs EXCEPT ![tmp_path] = EmptyDb]
    IN  \E res \in {build_lite_dataset(made, env, clock, tmp_path, ctry, a1, a2,
                                        codes,
                                        IF Truthy(label) THEN label ELSE "",
                                        None)} :
        /\ clock < MaxClock
        /\ tmp_path \in _tempfile_path(fs)
        /\ ret' = [op |-> "build_geonames_lite",
                   args |-> [country |-> country, admin1 |-> admin1,
                             admin2 |-> admin2, feature_codes |-> feature_codes,
                             label |-> label],
                   exc |-> res.out.exc, value |-> <<>>,
                   num |-> BuildStatus(res.out.exc),
                   sql |-> res.out.sql, params |-> res.out.params,
                   path |-> tmp_path, log |-> res.log]
        /\ fs' = IF res.out.exc = "none" THEN res.files
                 ELSE Unlink(res.files, tmp_path)
        /\ inflight' = IF res.out.exc = "none"
                       THEN inflight \cup {[path |-> tmp_path, sent |-> FALSE]}
                       ELSE inflight
        /\ clock' = clock + 1
        /\ UNCHANGED env

\* FileResponse: the file is streamed to the caller.
SendFile(r) ==
    /\ r \in inflight /\ ~r.sent
    /\ inflight' = (inflight \ {r}) \cup {[r EXCEPT !.sent = TRUE]}
    /\ UNCHANGED <<env, fs, clock, ret>>

\* The background task: p.unlink(missing_ok=True), after the response.
RunBackgroundTask(r) ==
    /\ r \in inflight /\ r.sent
    /\ inflight' = inflight \ {r}
    /\ fs' = Unlink(fs, r.path)
    /\ UNCHANGED <<env, clock, ret>>

(***************************************************************************)
(* One build on a deployment: build_lite_dataset called directly, or       *)
(* through the endpoint.                                                   *)
(***************************************************************************)
Countries == {None, "", "US", "FJ"}
Admin1s == {None, "", "WA"}
Admin2s == {None, "King"}
Labels == {"", "my label"}

BuildInit ==
    /\ clock = 0
    /\ ret = NoRet
    /\ inflight = {}
    /\ MasterContents \/ MasterLayouts

BuildCall ==
    \E country \in Countries, admin1 \in Admin1s, admin2 \in Admin2s,
       feature_codes \in CodeArgs, label \in Labels,
       master_db \in {None, EnvMasterPath, "out/b.db"} :
        BuildLite("out/a.db", country, admin1, admin2, feature_codes, label,
                  master_db)

HttpCall ==
    \E tmp_path \in TempPaths, country \in {"US", "us", "FJ "},
       admin1 \in {None, "WA", " wa ", " "}, admin2 \in {None, "King", " "},
       feature_codes \in {NoCsv, Csv(<<"">>), Csv(<<"P.PPL">>),
                          Csv(<<"H.LK", " P.PPL", "">>)},
       label \in {None, "my label"} :
        HttpBuildLite(tmp_path, country, admin1, admin2, feature_codes, label)

BuildNext ==
    \/ ret.op = "none" /\ BuildCall
    \/ ret.op = "none" /\ HttpCall
    \/ \E r \in inflight : SendFile(r)
    \/ \E r \in inflight : RunBackgroundTask(r)

BuildSpec == BuildInit /\ [][BuildNext]_vars

(***************************************************************************)
(* Claims about one build.                                                 *)
(***************************************************************************)
BuildReturned == ret.op = "build_lite_dataset" /\ ret.exc = "none"

\* The rows of the master the last build read, and of the output it wrote.
MasterRows == fs[ret.path].features
OutputRows == fs[ret.args.out_path].features

SameAttributes(row, m) == \A c \in Range(LITE_COLUMNS) : row[c] = m[c]

HasCompoundCode(m, items) ==
    /\ m.feature_class # None /\ m.feature_code # None
    /\ (m.feature_class \o "." \o m.feature_code) \in Range(items)

\* The rows the filter of the last build asks for, a field counting as
\* present when it is not None.
AskedPresent(m) ==
    /\ ret.args.country # None => m.country = ret.args.country
    /\ ret.args.admin1 # None => m.admin1 = ret.args.admin1
    /\ ret.args.admin2 # None => m.admin2 = ret.args.admin2
    /\ Len(ret.args.feature_codes.items) > 0 =>
          HasCompoundCode(m, ret.args.feature_codes.items)

\* The same, a field counting as present when it is neither None nor the
\* empty string.
AskedNonEmpty(m) ==
    /\ (ret.args.country # None /\ ret.args.country # "") =>
          m.country = ret.args.country
    /\ (ret.args.admin1 # None /\ ret.args.admin1 # "") =>
          m.admin1 = ret.args.admin1
    /\ (ret.args.admin2 # None /\ ret.args.admin2 # "") =>
          m.admin2 = ret.args.admin2
    /\ Len(ret.args.feature_codes.items) > 0 =>
          HasCompoundCode(m, ret.args.feature_codes.items)

\* C5 as stated: the output holds exactly the master rows for which every
\* present field among country, admin1, admin2 equals the row's value and,
\* for a non-empty featureCodes, whose CLASS.CODE is in it, each with the
\* identifier and the attribute values of its master row.
C5_ExactConjunctionPresent ==
    BuildReturned =>
        /\ \A row \in OutputRows :
              \E m \in MasterRows : SameAttributes(row, m) /\ AskedPresent(m)
        /\ \A m \in MasterRows :
              AskedPresent(m) =>
                 \E row \in OutputRows : row.geoname_id = m.geoname_id

\* C5 amended: the same with "present" read as "given and not the empty
\* string": an empty string imposes no constraint, like an absent field.
C5_ExactConjunctionNonEmpty ==
    BuildReturned =>
        /\ \A row \in OutputRows :
              \E m \in MasterRows : SameAttributes(row, m) /\ AskedNonEmpty(m)
        /\ \A m \in MasterRows :
              AskedNonEmpty(m) =>
                 \E row \in OutputRows : row.geoname_id = m.geoname_id
        /\ Cardinality(OutputRows)
              = Cardinality({row.geoname_id : row \in OutputRows})

\* A build with country, admin1 and feature codes given that copies some
\* master rows and leaves others out, one of them for its admin1 alone.
C5_Witness ==
    /\ BuildReturned
    /\ ret.args.country = "US" /\ ret.args.admin1 = "WA"
    /\ CodesTruthy(ret.args.feature_codes)
    /\ OutputRows # {}
    /\ \E m \in MasterRows :
          /\ m.country = "US" /\ m.admin1 # "WA"
          /\ HasCompoundCode(m, ret.args.feature_codes.items)
          /\ \A row \in OutputRows : row.geoname_id # m.geoname_id

\* No file at the master path the build is to read, before the call.
MasterAbsent(files, environ, master_db) ==
    IF master_db # None THEN files[master_db].kind = "absent"
    ELSE IF environ.DALITRAIL_GEONAMES_MASTER_DB \notin {None, ""}
         THEN files[environ.DALITRAIL_GEONAMES_MASTER_DB].kind = "absent"
    ELSE \A i \in 1..Len(DEFAULT_MASTER_CANDIDATES) :
            files[DEFAULT_MASTER_CANDIDATES[i]].kind = "absent"

\* C10: a build whose master dataset is absent fails with
\* GeoNamesDatasetNotFound and nothing else, the master path coming from
\* the locator or given as master_db; the endpoint answers it with 503 and
\* every other build failure with 500.
C10_AbsentMasterIsNotFound ==
    [][ /\ (/\ ret'.op = "build_lite_dataset"
            /\ MasterAbsent(fs, env, ret'.args.master_db))
           => ret'.exc = "GeoNamesDatasetNotFound"
        /\ (/\ ret'.op = "build_geonames_lite"
            /\ ret' # ret)
           => /\ MasterAbsent(fs, env, None) =>
                    (ret'.exc = "GeoNamesDatasetNotFound"
                        /\ ret'.num = HTTP_UNAVAILABLE)
              /\ ret'.exc \notin {"none", "GeoNamesDatasetNotFound"} =>
                    ret'.num = HTTP_ERROR
      ]_vars

(***************************************************************************)
(* Round trip: one build into an output path, then searches against the    *)
(* built subset.                                                           *)
(***************************************************************************)
RoundTripInit ==
    /\ clock = 0
    /\ ret = NoRet
    /\ inflight = {}
    /\ MasterContents

RoundTripBuild ==
    \E country \in {None, "US"}, admin1 \in {None, "WA"},
       feature_codes \in {NoCodes, CodeList(<<"P.PPL">>)} :
        BuildLite("out/a.db", country, admin1, None, feature_codes, "", None)

RoundTripSearch ==
    \E q \in QueryPoints, radius_km \in {10, 235}, limit \in {1, LIMIT_MAX},
       feature_codes \in CodeArgs :
        FetchNearby(q[1], q[2], radius_km, limit, feature_codes, "out/a.db")

RoundTripNext ==
    \/ ret.op = "none" /\ RoundTripBuild
    \/ ret.op = "build_lite_dataset" /\ RoundTripSearch

RoundTripSpec == RoundTripInit /\ [][RoundTripNext]_vars

\* The subset at out/a.db was built with country=US, admin1=WA: its
\* metadata says so (the builds of RoundTripSpec pass no label).
BuiltForUsWa ==
    /\ fs["out/a.db"].kind = "db"
    /\ \E kv \in fs["out/a.db"].metadata :
          /\ kv[1] = "lite_filter"
          /\ kv[2] \in {"country=US;admin1=WA", "country=US;admin1=WA;codes=P.PPL"}

\* C7: after a build with country=US, admin1=WA, every search against the
\* built subset returns only features whose country is "US" and whose
\* admin1 is "WA".
C7_RoundTripUsWa ==
    (SearchReturned /\ ret.args.db_path = "out/a.db" /\ BuiltForUsWa) =>
        \A i \in 1..Len(ret.value) :
            /\ ret.value[i].country = "US"
            /\ ret.value[i].admin1 = "WA"

\* A search of the US/WA subset that returned something, the master holding
\* within the searched radius a US feature outside WA.
C7_Witness ==
    /\ SearchReturned /\ ret.args.db_path = "out/a.db" /\ BuiltForUsWa
    /\ Len(ret.value) > 0
    /\ \E m \in fs[DEFAULT_MASTER_CANDIDATES[1]].features :
          /\ m.country = "US" /\ m.admin1 # "WA"
          /\ HaversineM(ret.args.lat, ret.args.lng, m.latitude, m.longitude)
                <= ret.args.radius_km * 1000

(***************************************************************************)
(* Rebuilds: successive builds by either builder into output paths that    *)
(* may already hold a file.                                                *)
(***************************************************************************)
\* What an earlier run left at an output path.
OldOutput ==
    [kind |-> "db", tables |-> {"features", "metadata"},
     features |->
        {Project(Feature(99, "Old Town", "P", "PPL", 47000, -122000,
                         "US", "WA", "Pierce", 10), LITE_COLUMNS)},
     metadata |-> { <<"lite_filter", "old">>, <<"old_key", "old">> },
     alternate_names |-> {}]

RebuildMasters ==
    { MasterDb(Pool), MasterDb({r \in Pool : r.geoname_id \in {1, 3, 4}}), Absent }

RebuildInit ==
    /\ clock = 0
    /\ ret = NoRet
    /\ inflight = {}
    /\ env = Environ(None, None)
    /\ \E master \in RebuildMasters, old \in {Absent, OldOutput, Garbage} :
          fs = [NoFiles EXCEPT ![DEFAULT_MASTER_CANDIDATES[1]] = master,
                               !["out/a.db"] = old]

LiteRequest(country, admin1, admin2, feature_codes, label) ==
    [country |-> country, admin1 |-> admin1, admin2 |-> admin2,
     feature_codes |-> feature_codes, label |-> label]

LiteRequests ==
    { LiteRequest(None, None, None, NoCodes, ""),
      LiteRequest("US", None, None, NoCodes, ""),
      LiteRequest("FJ", None, None, NoCodes, ""),
      LiteRequest("US", "WA", None, CodeList(<<"P.PPL">>), ""),
      LiteRequest("US", "WA", None, CodeList(<<"H.LK">>), ""),
      LiteRequest("US", "WA", None, CodeList(<<"P.PPL">>), "my label") }

CliRequest(countries, where) == [countries |-> countries, where |-> where]

CliRequests ==
    { CliRequest(NoCsv, None),
      CliRequest(Csv(<<"US">>), None),
      CliRequest(Csv(<<"FJ">>), None),
      CliRequest(Csv(<<"US">>), "population > 0"),
      CliRequest(Csv(<<"US">>), "admin1 = 'WA'"),
      CliRequest(NoCsv, "1=1) OR (1=1") }

RebuildLite ==
    \E out_path \in OutPaths, rq \in LiteRequests :
        BuildLite(out_path, rq.country, rq.admin1, rq.admin2, rq.feature_codes,
                  rq.label, None)

RebuildCli ==
    \E output \in OutPaths, overwrite \in BOOLEAN, rq \in CliRequests :
        GenerateLiteDb(CliArgs(DEFAULT_MASTER_CANDIDATES[1], output, overwrite,
                               rq.countries, NoCsv, NoCsv, NoInt, NoInt, NoInt,
                               NoInt, rq.where, NoInt))

RebuildNext == RebuildLite \/ RebuildCli

RebuildSpec == RebuildInit /\ [][RebuildNext]_vars

(***************************************************************************)
(* Claims about successive builds.                                         *)
(***************************************************************************)
\* A step that is a call of the given builder.
Calls(op) == ret'.op = op /\ clock' = clock + 1

\* Which filter fields a build was given and how many elements its lists
\* carry.
FilterShape(r) ==
    IF r.op = "build_lite_dataset"
    THEN << r.args.country \notin {None, ""}, r.args.admin1 \notin {None, ""},
            r.args.admin2 \notin {None, ""}, Len(r.args.feature_codes.items) >>
    ELSE << Len(r.args.countries.pieces), Len(r.args.feature_codes.pieces),
            Len(r.args.feature_classes.pieces),
            r.args.grid_lat_min.given, r.args.grid_lat_max.given,
            r.args.grid_lng_min.given, r.args.grid_lng_max.given,
            r.args.where \notin {None, ""},
            r.args.limit.given /\ r.args.limit.n > 0 >>

\* C6: in both builders the query text depends only on the shape of the
\* filter: two builds by the same builder whose filters have the same shape
\* issue character-identical query text.
C6_QueryTextDependsOnShapeOnly ==
    [][ \A op \in {"build_lite_dataset", "generate_lite_db"} :
          (/\ ret.op = op /\ Calls(op)
           /\ ret.sql # "" /\ ret'.sql # ""
           /\ FilterShape(ret) = FilterShape(ret'))
             => ret'.sql = ret.sql
      ]_vars

\* The entries of a metadata table other than the generation timestamp.
WithoutTimestamp(metadata) == {kv \in metadata : kv[1] # "lite_generated_at"}

SameRequest(a, b) ==
    /\ a.country = b.country /\ a.admin1 = b.admin1 /\ a.admin2 = b.admin2
    /\ a.feature_codes = b.feature_codes /\ a.label = b.label

CleanLiteOutput(file, master, now) ==
    /\ file.kind = "db"
    /\ file.features \subseteq {Project(m, LITE_COLUMNS) : m \in master.features}
    /\ \A kv \in file.metadata :
          \/ kv[1] = "lite_filter" /\ kv[2] # "old"
          \/ kv = <<"lite_generated_at", IsoFormat(now)>>

\* The same for the command-line builder.
CleanCliOutput(file, master, now) ==
    /\ file.kind = "db"
    /\ file.features \subseteq master.features
    /\ \A kv \in file.metadata :
          \/ kv \in master.metadata /\ kv[1] # "lite_filter"
          \/ kv[1] = "lite_filter" /\ kv[2] # "old"
          \/ kv[1] = "lite_source_db"
          \/ kv = <<"lite_generated_at", IsoFormatZ(now)>>

\* A build that got as far as its output: its master (source) was found.
LiteStarted == ret'.exc # "GeoNamesDatasetNotFound"
CliStarted == ret'.exc # "FileNotFoundError"

\* C9 as stated: an output path that exists when a build starts is removed
\* first and holds afterwards only what this invocation wrote, in
\* build_lite_dataset and in the command-line builder for every value of
\* its overwrite flag.
C9_CleanOutputAnyOverwrite ==
    [][ /\ (/\ Calls("build_lite_dataset") /\ LiteStarted
            /\ Exists(fs, ret'.args.out_path))
           => CleanLiteOutput(fs'[ret'.args.out_path], fs[ret'.path], clock)
        /\ (/\ Calls("generate_lite_db") /\ CliStarted
            /\ Exists(fs, ret'.args.output))
           => CleanCliOutput(fs'[ret'.args.output], fs[ret'.args.source], clock)
      ]_vars

\* C9 amended: the same for build_lite_dataset and for the command-line
\* builder when overwrite is set; when overwrite is not set the
\* command-line builder fails with FileExistsError and leaves the existing
\* file as it was.
C9_CleanOutputWhenOverwriting ==
    [][ /\ (/\ Calls("build_lite_dataset") /\ LiteStarted
            /\ Exists(fs, ret'.args.out_path))
           => CleanLiteOutput(fs'[ret'.args.out_path], fs[ret'.path], clock)
        /\ (/\ Calls("generate_lite_db") /\ CliStarted
            /\ Exists(fs, ret'.args.output))
           => IF ret'.args.overwrite
              THEN CleanCliOutput(fs'[ret'.args.output], fs[ret'.args.source],
                                  clock)
              ELSE /\ ret'.exc = "FileExistsError"
                   /\ fs'[ret'.args.output] = fs[ret'.args.output]
      ]_vars

\* The command-line builder, with overwrite set, has replaced a file: its
\* call was the second, and the first call (which left no file at out/b.db)
\* wrote out/a.db or found a file there.
C9_Witness ==
    /\ clock = 2
    /\ ret.op = "generate_lite_db" /\ ret.exc = "none"
    /\ ret.args.output = "out/a.db" /\ ret.args.overwrite
    /\ fs["out/b.db"].kind = "absent"
    /\ fs["out/a.db"].features # {}
    /\ <<"lite_generated_at", IsoFormatZ(1)>> \in fs["out/a.db"].metadata

(***************************************************************************)
(* The endpoint as a server: requests arrive one after the other, each     *)
(* with a temporary file of its own; the responses are sent and the        *)
(* background tasks run while later requests arrive.  The framework sends  *)
(* every response it was handed and then runs its background tasks, hence  *)
(* the weak fairness of both steps.                                        *)
(***************************************************************************)
(* Finalisation of a build (geodata.py 472-538).                           *)
(***************************************************************************)
Vacuums(log) == {i \in DOMAIN log : log[i].kind = "vacuum"}

Writes(log) == {i \in DOMAIN log : log[i].kind \in {"dml", "ddl"}}

\* C12: whenever a build reaches the compaction step, the writes to the
\* features and metadata tables are already committed, no transaction is
\* open on the output connection when VACUUM runs, VACUUM succeeds, and no
\* write follows it; a build that returns normally has reached that step.
C12_CommittedThenCompacted ==
    ret.op \in {"build_lite_dataset", "build_geonames_lite"} =>
        /\ \A v \in Vacuums(ret.log) :
              /\ ~ret.log[v].inside
              /\ ret.log[v].pending = {}
              /\ {"features", "metadata"} \subseteq ret.log[v - 1].committed
              /\ ret.log[v].exc = "none"
              /\ \A w \in Writes(ret.log) : w < v
              /\ v = Len(ret.log)
        /\ ret.exc = "none" => Vacuums(ret.log) # {}

\* A build that copied rows has run all its statements and compacted.
C12_Witness ==
    /\ ret.op = "build_lite_dataset" /\ ret.exc = "none"
    /\ Vacuums(ret.log) = {Len(LiteStatements)}
    /\ Cardinality(Writes(ret.log)) = 4
    /\ \E p \in OutPaths : fs[p].kind = "db" /\ fs[p].features # {}
                           /\ fs[p].metadata # {}

(***************************************************************************)
HttpInit ==
    /\ clock = 0
    /\ ret = NoRet
    /\ inflight = {}
    /\ \E master \in {None, EnvMasterPath} : env = Environ(None, master)
    /\ \E file \in {Absent, Garbage, MasterDb(Pool)}, other \in {Absent, MasterDb(Pool)} :
          fs = [NoFiles EXCEPT ![DEFAULT_MASTER_CANDIDATES[1]] = file,
                               ![EnvMasterPath] = other]

HttpRequest ==
    \E tmp_path \in TempPaths, country \in {"us", "FJ "},
       admin1 \in {None, " wa "}, feature_codes \in {NoCsv, Csv(<<"P.PPL">>)} :
        HttpBuildLite(tmp_path, country, admin1, None, feature_codes, None)

HttpNext ==
    \/ HttpRequest
    \/ \E r \in inflight : SendFile(r)
    \/ \E r \in inflight : RunBackgroundTask(r)

HttpSpec ==
    /\ HttpInit /\ [][HttpNext]_vars
    /\ WF_vars(\E r \in inflight : SendFile(r))
    /\ WF_vars(\E r \in inflight : RunBackgroundTask(r))

\* C11: the temporary file of a build is removed on every exit path.  A
\* failed build (GeoNamesDatasetNotFound or any other exception) has
\* removed it when the error response is returned; a successful build keeps
\* it until the response has been sent, and every temporary file on disk
\* is eventually removed.
C11_TemporaryFileRemoved ==
    /\ [](/\ (ret.op = "build_geonames_lite" /\ ret.exc # "none")
                => fs[ret.path].kind = "absent"
          /\ \A r \in inflight : ~r.sent => fs[r.path].kind = "db"
          /\ \A p \in TempPaths :
                fs[p].kind # "absent" => \E r \in inflight : r.path = p)
    /\ \A p \in TempPaths : (fs[p].kind # "absent") ~> (fs[p].kind = "absent")

\* The second of two requests was built with success, and every temporary
\* file has been sent and removed.
C11_Witness ==
    /\ clock = 2
    /\ ret.op = "build_geonames_lite" /\ ret.exc = "none"
    /\ ret.num = HTTP_OK
    /\ inflight = {}
    /\ \A p \in TempPaths : fs[p].kind = "absent"

(***************************************************************************)
(* The whole program: any deployment, the steps of every component.        *)
(***************************************************************************)
(* Metadata of a built subset (geodata.py 527-532, generate_lite_db.py     *)
(* 227-236).                                                               *)
(***************************************************************************)
\* The description of a filter as the specification words it: the present
\* fields in the order country, admin1, admin2, codes, joined by ";".
FilterDescription(country, admin1, admin2, codes) ==
    LET bits ==
            (IF country \notin {None, ""} THEN <<"country=" \o country>> ELSE <<>>)
         \o (IF admin1 \notin {None, ""} THEN <<"admin1=" \o admin1>> ELSE <<>>)
         \o (IF admin2 \notin {None, ""} THEN <<"admin2=" \o admin2>> ELSE <<>>)
         \o (IF codes # <<>> THEN <<"codes=" \o Join(codes, ",")>> ELSE <<>>)
    IN  IF bits = <<>> THEN "all" ELSE Join(bits, ";")

LiteBuilt == ret.op = "build_lite_dataset" /\ ret.exc = "none"

CliBuilt == ret.op = "generate_lite_db" /\ ret.exc = "none"

\* C13: whatever the filter and the label, the metadata of a built subset
\* holds the filter description made of the present filter fields in the
\* fixed order, or "all" when there is none; the label has no part in it.
C13_DescriptionFromFilterFields ==
    /\ LiteBuilt =>
          <<"lite_filter",
            FilterDescription(ret.args.country, ret.args.admin1, ret.args.admin2,
                              ret.args.feature_codes.items)>>
              \in fs[ret.args.out_path].metadata
    /\ CliBuilt =>
          <<"lite_filter",
            FilterDescription(
                IF split_csv(ret.args.countries) = <<>> THEN None
                ELSE Join(split_csv(ret.args.countries), ","),
                None, None, split_csv(ret.args.feature_codes))>>
              \in fs[ret.args.output].metadata

\* The keys of a metadata table.
MetadataKeys(metadata) == {m[1] : m \in metadata}

\* The file the last build wrote.
BuiltFile == IF ret.op = "build_lite_dataset" THEN fs[ret.args.out_path] ELSE fs[ret.args.output]

\* C14: every subset file a builder produced has in its metadata a
\* generation timestamp, a filter description and the identity of the
\* source dataset it was derived from.
C14_ProvenanceMetadata ==
    (LiteBuilt \/ CliBuilt) =>
        /\ "lite_generated_at" \in MetadataKeys(BuiltFile.metadata)
        /\ "lite_filter" \in MetadataKeys(BuiltFile.metadata)
        /\ \E m \in BuiltFile.metadata : m[2] = ret.path

\* C15: every key of the master's metadata is in the subset's metadata,
\* with the master's value unless the build wrote an entry of its own
\* under that key.
C15_MasterMetadataMerged ==
    (LiteBuilt \/ CliBuilt) =>
        \A m \in fs[ret.path].metadata :
            /\ m[1] \in MetadataKeys(BuiltFile.metadata)
            /\ m[1] \notin {"lite_generated_at", "lite_filter", "lite_source_db"}
                  => m \in BuiltFile.metadata

(***************************************************************************)
(* The copy of the alternate names against the chunk size                  *)
(* (generate_lite_db.py 208-224).                                          *)
(***************************************************************************)
\* The numbers of copied features: none, below the chunk size, the chunk
\* size, one more, twice the chunk size, and one more.
IdCounts ==
    {0, 1, CHUNK_SIZE - 1, CHUNK_SIZE, CHUNK_SIZE + 1, 2 * CHUNK_SIZE,
     2 * CHUNK_SIZE + 1}

\* The identifiers copy_features returns for n copied features, in the
\* order of the SELECT: ascending or descending.
SelectedIds(n, descending) ==
    [i \in 1..n |-> IF descending THEN n + 1 - i ELSE i]

AlternateName(geoname_id, name) ==
    [geoname_id |-> geoname_id, name |-> name, name_ascii |-> name,
     is_preferred |-> 0]

\* Alternate names of the master, with parents on both sides of each chunk
\* boundary and one parent that is never copied.
AlternatePool ==
    << AlternateName(1, "first"),
       AlternateName(CHUNK_SIZE, "last of chunk"),
       AlternateName(CHUNK_SIZE, "last of chunk, again"),
       AlternateName(CHUNK_SIZE + 1, "first of next chunk"),
       AlternateName(2 * CHUNK_SIZE, "last of second chunk"),
       AlternateName(2 * CHUNK_SIZE + 1, "first of third chunk"),
       AlternateName(3 * CHUNK_SIZE, "never copied") >>

ChunkInit ==
    /\ clock = 0
    /\ ret = NoRet
    /\ inflight = {}
    /\ env = Environ(None, None)
    /\ fs = NoFiles

CopyAlternateNames ==
    /\ clock < MaxClock
    /\ ret.op = "none"
    /\ \E n \in IdCounts, descending \in BOOLEAN, kept \in SUBSET DOMAIN AlternatePool :
       \E alternate_names \in {SelectSeq(AlternatePool, LAMBDA a :
                               \E i \in kept : AlternatePool[i] = a)} :
        /\ ret' = [op |-> "copy_alternate_names",
                   args |-> [n |-> n, descending |-> descending,
                             alternate_names |-> alternate_names],
                   exc |-> "none",
                   value |-> copy_alternate_names(alternate_names,
                                                  SelectedIds(n, descending)),
                   num |-> 0, sql |-> "", params |-> <<>>, path |-> None,
                   log |-> <<>>]
        /\ clock' = clock + 1
        /\ UNCHANGED <<env, fs, inflight>>

ChunkNext == CopyAlternateNames

ChunkSpec == ChunkInit /\ [][ChunkNext]_vars

AlternateNamesCopied == ret.op = "copy_alternate_names"

\* How many times a row was inserted.
Inserted(row) == Cardinality({j \in DOMAIN ret.value : ret.value[j] = row})

\* C16: the alternate names copied are exactly the master's rows whose
\* parent is a copied feature, each inserted once and no other row, for
\* every number of copied identifiers around the chunk size.
C16_AlternateNamesOfCopiedFeatures ==
    AlternateNamesCopied =>
        /\ \A i \in DOMAIN ret.args.alternate_names :
              Inserted(ret.args.alternate_names[i]) =
                  IF ret.args.alternate_names[i].geoname_id \in 1..ret.args.n
                  THEN 1 ELSE 0
        /\ \A j \in DOMAIN ret.value : ret.value[j].geoname_id \in 1..ret.args.n

\* Two full chunks and one identifier more were copied, from a master
\* with alternate names on both sides of each boundary and one orphan.
C16_Witness ==
    /\ AlternateNamesCopied
    /\ ret.args.n = 2 * CHUNK_SIZE + 1
    /\ ret.args.alternate_names = AlternatePool
    /\ Len(ret.value) = Len(AlternatePool) - 1

(***************************************************************************)
(* Region scan: scan_regions (geodata.py 353-408).                         *)
(***************************************************************************)
\* The element nearest to zero.
SetMinAbsolute(S) ==
    CHOOSE x \in S : \A y \in S : Max(x, 0 - x) <= Max(y, 0 - y)

SetMin(S) == CHOOSE x \in S : \A y \in S : x <= y

SetMax(S) == CHOOSE x \in S : \A y \in S : x >= y

\* group_cols
GroupCols(level) ==
    IF level = "admin2" THEN <<"country", "admin1", "admin2">>
    ELSE <<"country", "admin1">>

\* The text of the query: it depends on the level and on whether a
\* country is given, and on nothing else.
ScanQuery(level, country) ==
    "SELECT country, admin1, " \o (IF level = "admin2" THEN "admin2, " ELSE "")
    \o "COUNT(*) AS n, MIN(latitude) AS min_lat, MAX(latitude) AS max_lat, "
    \o "MIN(longitude) AS min_lng, MAX(longitude) AS max_lng FROM features "
    \o (IF Truthy(country) THEN "WHERE country = ? " ELSE "")
    \o "GROUP BY " \o Join(GroupCols(level), ", ")
    \o " HAVING n >= ? ORDER BY n DESC LIMIT ?"

ScanParams(country, min_count, limit) ==
    (IF Truthy(country) THEN <<StrParam(country)>> ELSE <<>>)
    \o <<IntParam(min_count), IntParam(limit)>>

\* The separator of the parts of a label, " \u2022 " in the source.
LABEL_SEPARATOR == " * "

\* item["label"]
RegionLabel(identity, n) ==
    Join(SelectSeq(identity, LAMBDA p : Truthy(p)), LABEL_SEPARATOR)
    \o " (" \o ToString(n) \o ")"

\* One row of the answer, as the dictionary scan_regions makes of it; the
\* key admin2 exists at level admin2 only.
RegionItem(level, members) ==
    LET first == CHOOSE r \in members : TRUE
        identity == Project(first, GroupCols(level))
        n == Cardinality(members)
        label == RegionLabel([i \in 1..Len(GroupCols(level)) |->
                                 first[GroupCols(level)[i]]], n)
        aggregates ==
            [n |-> n,
             min_lat |-> SetMin({r.latitude : r \in members}),
             max_lat |-> SetMax({r.latitude : r \in members}),
             min_lng |-> SetMin({r.longitude : r \in members}),
             max_lng |-> SetMax({r.longitude : r \in members}),
             level |-> level, label |-> label]
    IN  [k \in DOMAIN identity \cup DOMAIN aggregates |->
            IF k \in DOMAIN identity THEN identity[k] ELSE aggregates[k]]

\* HAVING n >= ? from min_count - 1 on.
RegionGroupsOffByOne(rows, level, country, min_count) ==
    LET filtered == IF Truthy(country)
                    THEN {r \in rows : SqlEq(r.country, country)} ELSE rows
        identities == {Project(r, GroupCols(level)) : r \in filtered}
        groups == { {r \in filtered : Project(r, GroupCols(level)) = id} :
                        id \in identities }
    IN  {RegionItem(level, members) :
            members \in {g \in groups : Cardinality(g) >= min_count - 1}}

\* WHERE, GROUP BY and HAVING: NULLs of a grouping column form one group.
RegionGroups(rows, level, country, min_count) ==
    LET filtered == IF Truthy(country)
                    THEN {r \in rows : SqlEq(r.country, country)} ELSE rows
        identities == {Project(r, GroupCols(level)) : r \in filtered}
        groups == { {r \in filtered : Project(r, GroupCols(level)) = id} :
                        id \in identities }
    IN  {RegionItem(level, members) :
            members \in {g \in groups : Cardinality(g) >= min_count}}

\* ORDER BY n DESC: SQL leaves the order of groups of equal count open.
RECURSIVE ScanOrders(_)
ScanOrders(items) ==
    IF items = {} THEN {<<>>}
    ELSE UNION { {<<top>> \o rest : rest \in ScanOrders(items \ {top})} :
                    top \in {i \in items : \A o \in items : o.n <= i.n} }

\* LIMIT ?: a negative limit is no limit.
SqlLimit(rows, limit) ==
    IF limit < 0 THEN rows ELSE SubSeq(rows, 1, Min(limit, Len(rows)))

\* scan_regions: the outcomes the call can have and the file system each
\* leaves.
scan_regions(files, environ, level, country, min_count, limit, master_db) ==
    IF level \notin {"admin1", "admin2"}
    THEN {[out |-> Outcome("ValueError", <<>>, "", <<>>, None), files |-> files]}
    ELSE
    LET located == MasterSource(files, environ, master_db)
    IN
    IF located.exc # "none"
    THEN {[out |-> Outcome(located.exc, <<>>, "", <<>>, None), files |-> files]}
    ELSE
    LET sql == ScanQuery(level, country)
        params == ScanParams(country, min_count, limit)
        opened == Connect(files, located.path)
        failed == SelectError(opened, located.path)
    IN
    IF failed # "none"
    THEN {[out |-> Outcome(failed, <<>>, sql, params, located.path),
           files |-> opened]}
    ELSE
    { [out |-> Outcome("none", SqlLimit(order, limit), sql, params, located.path),
       files |-> opened] :
        order \in ScanOrders(RegionGroups(opened[located.path].features, level,
                                          country, min_count)) }

ScanRegions(level, country, min_count, limit, master_db) ==
    /\ clock < MaxClock
    /\ ret.op = "none"
    /\ \E res \in scan_regions(fs, env, level, country, min_count, limit, master_db) :
        /\ ret' = [op |-> "scan_regions",
                   args |-> [level |-> level, country |-> country,
                             min_count |-> min_count, limit |-> limit,
                             master_db |-> master_db],
                   exc |-> res.out.exc, value |-> res.out.value, num |-> 0,
                   sql |-> res.out.sql, params |-> res.out.params,
                   path |-> res.out.path, log |-> <<>>]
        /\ fs' = res.files
        /\ clock' = clock + 1
        /\ UNCHANGED <<env, inflight>>

Levels == {"admin1", "admin2", "county"}
MinCounts == {1, 2, 3}
ScanLimits == {-1, 0, 1, 2, 5}

\* The master at its first built-in path: every content, or unreadable,
\* or missing.
ScanInit ==
    /\ clock = 0
    /\ ret = NoRet
    /\ inflight = {}
    /\ env = Environ(None, None)
    /\ \E master \in {MasterDb(rows) : rows \in SUBSET Pool} \cup {Absent, Garbage} :
          fs = [NoFiles EXCEPT ![DEFAULT_MASTER_CANDIDATES[1]] = master]

ScanCall ==
    \E level \in Levels, country \in Countries, min_count \in MinCounts,
       limit \in ScanLimits, master_db \in {None, "out/b.db"} :
        ScanRegions(level, country, min_count, limit, master_db)

ScanNext == ScanCall

ScanSpec == ScanInit /\ [][ScanNext]_vars

(***************************************************************************)
(* What a region scan returns.                                             *)
(***************************************************************************)
Scanned == ret.op = "scan_regions" /\ ret.exc = "none"

\* The identity of a feature and of a returned region at the level asked.
FeatureIdentity(r) ==
    IF ret.args.level = "admin2" THEN <<r.country, r.admin1, r.admin2>>
    ELSE <<r.country, r.admin1>>

RegionIdentity(item) ==
    IF ret.args.level = "admin2" THEN <<item.country, item.admin1, item.admin2>>
    ELSE <<item.country, item.admin1>>

\* The master's features with a given identity.
Members(identity) ==
    {r \in fs[ret.path].features : FeatureIdentity(r) = identity}

\* The identities that qualify: of the country asked, if one is asked,
\* and with at least min_count features.
Qualifying(asked) ==
    { FeatureIdentity(r) : r \in
        { q \in fs[ret.path].features :
            /\ asked => q.country = ret.args.country
            /\ Cardinality(Members(FeatureIdentity(q))) >= ret.args.min_count } }

Returned == {RegionIdentity(ret.value[i]) : i \in DOMAIN ret.value}

ScanContract(asked) ==
    /\ \A i \in DOMAIN ret.value : ret.value[i].n >= ret.args.min_count
    /\ \A i, j \in DOMAIN ret.value : i < j => ret.value[i].n >= ret.value[j].n
    /\ Len(ret.value) <= ret.args.limit
    /\ Returned \subseteq Qualifying(asked)
    /\ Cardinality(Qualifying(asked)) > ret.args.limit =>
          /\ Len(ret.value) = ret.args.limit
          /\ \A q \in Qualifying(asked) \ Returned, i \in DOMAIN ret.value :
                Cardinality(Members(q)) <= ret.value[i].n
    /\ asked => \A i \in DOMAIN ret.value : ret.value[i].country = ret.args.country

\* C17 as stated: a scan returns only groups of at least min_count
\* features, in descending order of count, at most limit of them and then
\* those of the largest counts, all of the country asked when one is given,
\* whatever the limit and the country given.
C17_TopGroupsAnyArguments ==
    Scanned => ScanContract(ret.args.country # None)

\* C17: the same for a limit that is not negative, a country counting as
\* given when it is not the empty string.
C17_TopGroups ==
    (Scanned /\ ret.args.limit >= 0) => ScanContract(Truthy(ret.args.country))

\* More groups of the country asked qualify than the limit allows, and
\* the one returned is the largest.
C17_Witness ==
    /\ Scanned
    /\ ret.args.country = "US" /\ ret.args.limit = 1 /\ ret.args.min_count = 1
    /\ Cardinality(Qualifying(TRUE)) = 3
    /\ Len(ret.value) = 1 /\ ret.value[1].n = 2

\* C18: the regions returned have distinct identities at the level asked;
\* the count of each is the number of the master's features with its
\* identity, and its box is the least and greatest latitude and longitude
\* of those features, so that each of them lies inside it.
C18_GroupsCountsBoxes ==
    Scanned =>
        /\ \A i, j \in DOMAIN ret.value :
              RegionIdentity(ret.value[i]) = RegionIdentity(ret.value[j]) => i = j
        /\ \A i \in DOMAIN ret.value :
              LET item == ret.value[i]
                  members == Members(RegionIdentity(item))
              IN  /\ item.n = Cardinality(members)
                  /\ item.n > 0
                  /\ \A r \in members :
                        /\ item.min_lat <= r.latitude /\ r.latitude <= item.max_lat
                        /\ item.min_lng <= r.longitude /\ r.longitude <= item.max_lng
                  /\ \E r \in members : r.latitude = item.min_lat
                  /\ \E r \in members : r.latitude = item.max_lat
                  /\ \E r \in members : r.longitude = item.min_lng
                  /\ \E r \in members : r.longitude = item.max_lng

\* A scan at level admin2 returned several regions, one of them with two
\* features at different places.
C18_Witness ==
    /\ Scanned /\ ret.args.level = "admin2"
    /\ Len(ret.value) >= 3
    /\ \E i \in DOMAIN ret.value :
          /\ ret.value[i].n = 2 /\ ret.value[i].admin2 = "King"
          /\ ret.value[i].min_lat < ret.value[i].max_lat
          /\ ret.value[i].min_lng < ret.value[i].max_lng

(***************************************************************************)
(* Dataset catalog: load_geonames_dataset_catalog (geodata.py 215-347).    *)
(***************************************************************************)
\* A dictionary is a function from its keys; d.get(key, default).
Get(d, key, default) == IF key \in DOMAIN d THEN d[key] ELSE default

\* d[key] = value
Put(d, key, value) ==
    [k \in DOMAIN d \cup {key} |-> IF k = key THEN value ELSE d[k]]

\* What json.loads makes of the text of the catalog file: a list, an
\* object (with or without the key "datasets"), another value, or a
\* JSONDecodeError.
InvalidJson == [type |-> "invalid"]
JsonScalar == [type |-> "scalar"]
JsonList(items) == [type |-> "list", items |-> items]
JsonObject(datasets) == [type |-> "object", datasets |-> datasets]
NoKey == [type |-> "missing"]

\* An item of the list: a dictionary, or a value that is none.
Entry(d) == [dict |-> TRUE, entry |-> d]
NotAnEntry == [dict |-> FALSE, entry |-> [text |-> "junk"]]

\* A file holding JSON text.
JsonFile(raw) ==
    [kind |-> "json", tables |-> {}, features |-> {}, metadata |-> {},
     alternate_names |-> {}, json |-> raw]

\* Only the first of the two built-in entries.
DefaultCatalogActiveOnly ==
    << [id |-> "us-wa", label |-> "United States - Washington State",
        description |-> "Cities, trails, and outdoor features for Washington.",
        source |-> "active", url |-> "/datasets/geonames-lite-us-wa.db"] >>

_default_dataset_catalog ==
    << [id |-> "us-wa", label |-> "United States - Washington State",
        description |-> "Cities, trails, and outdoor features for Washington.",
        source |-> "active", url |-> "/datasets/geonames-lite-us-wa.db"],
       [id |-> "sample", label |-> "Sample Dataset (Tiny)",
        description |-> "Mini dataset for testing search locally.",
        source |-> "static", path |-> "assets/data/geonames-sample.db",
        file_name |-> "geonames-sample.db",
        url |-> "/assets/data/geonames-sample.db"] >>

\* round(numerator / denominator), halves to the even neighbour, as the
\* format of a float does.
RoundHalfEven(numerator, denominator) ==
    LET q == numerator \div denominator
        r == numerator % denominator
    IN  IF 2 * r > denominator THEN q + 1
        ELSE IF 2 * r = denominator THEN q + (q % 2)
        ELSE q

\* The number _format_size_bytes shows and its unit, for the sizes whose
\* tenfold is a 32-bit integer (up to some 200 MB): the digits before the
\* point, the number of decimals (0 or 1) and the decimal.  Dividing by
\* 1024.0 is exact in floating point.
FormatParts(size) ==
    IF size < 1024
    THEN [unit |-> "B", whole |-> size, decimals |-> 0, tenth |-> 0]
    ELSE
    LET index == IF size \div 1024 < 1024 THEN 0
                 ELSE IF size \div (1024 * 1024) < 1024 THEN 1 ELSE 2
        unit == <<"KB", "MB", "GB">>[index + 1]
        divisor == <<1024, 1024 * 1024, 1024 * 1024 * 1024>>[index + 1]
    IN  IF size \div divisor < 10
        THEN The({ [unit |-> unit, whole |-> tenths \div 10, decimals |-> 1,
                    tenth |-> tenths % 10]
                   : tenths \in {RoundHalfEven(10 * size, divisor)} })
        ELSE [unit |-> unit, whole |-> RoundHalfEven(size, divisor),
              decimals |-> 0, tenth |-> 0]

\* f"{value:.{precision}f} {units[index]}"
FormatText(parts) ==
    ToString(parts.whole)
    \o (IF parts.decimals = 1 THEN "." \o ToString(parts.tenth) ELSE "")
    \o " " \o parts.unit

\* _format_size_bytes
_format_size_bytes(size) ==
    The({ FormatText(parts) : parts \in {FormatParts(size)} })

\* _load_dataset_config: the entries to resolve, or the error raised.
_load_dataset_config(files) ==
    IF ~Exists(files, DATASET_CATALOG_PATH)
    THEN [exc |-> "none", datasets |-> _default_dataset_catalog]
    ELSE
    LET raw == files[DATASET_CATALOG_PATH].json
    IN
    IF raw.type = "invalid"
    THEN [exc |-> "RuntimeError", datasets |-> <<>>]
    ELSE
    LET entries == IF raw.type = "object"
                   THEN IF raw.datasets.type = "missing" THEN JsonList(<<>>)
                        ELSE raw.datasets
                   ELSE raw
    IN
    IF entries.type # "list"
    THEN [exc |-> "RuntimeError", datasets |-> <<>>]
    ELSE
    LET kept == SelectSeq(entries.items, LAMBDA item : item.dict)
        datasets == [i \in 1..Len(kept) |-> kept[i].entry]
    IN  [exc |-> "none",
         datasets |-> IF datasets = <<>> THEN _default_dataset_catalog
                      ELSE datasets]

\* Path.name of the paths of the model.
PathName(path) ==
    CASE path \in Range(DEFAULT_DATASET_PATHS) -> "geonames-lite-us-wa.db"
      [] path = EnvLitePath -> "lite.db"
      [] path = SamplePath -> "geonames-sample.db"
      [] path = RegionPath -> "geonames-lite-us-or.db"

\* str(exc) of the GeoNamesDatasetNotFound the locator raised.
NotFoundMessage(located) ==
    IF located.named # None
    THEN "Dataset specified by DALITRAIL_GEONAMES_DB not found: " \o located.named
    ELSE "Unable to locate geonames-lite-us-wa.db. "
         \o "Set DALITRAIL_GEONAMES_DB to the absolute dataset path."

\* if not dataset.get("file_name"): dataset["file_name"] = path.name
WithFileName(dataset, path) ==
    IF Truthy(Get(dataset, "file_name", None)) THEN dataset
    ELSE Put(dataset, "file_name", PathName(path))

Located(dataset, file_path, available, error_message) ==
    [dataset |-> dataset, file_path |-> file_path, available |-> available,
     error_message |-> error_message]

\* source == "active": the active lite dataset.
ResolveActive(files, environ, dataset) ==
    LET located == resolve_dataset_path(files, environ)
    IN  IF located.exc # "none"
        THEN Located(dataset, None, FALSE, NotFoundMessage(located))
        ELSE Located(WithFileName(dataset, located.path), located.path, TRUE, None)

\* The static branch without the test that the file exists.
ResolveStaticUnchecked(files, dataset) ==
    LET raw_path == Get(dataset, "path", None)
    IN  IF ~Truthy(raw_path) THEN Located(dataset, None, TRUE, None)
        ELSE Located(WithFileName(dataset, raw_path), raw_path, TRUE, None)

\* Any other source: the file at "path", relative to BASE_DIR.
ResolveStatic(files, dataset) ==
    LET raw_path == Get(dataset, "path", None)
    IN  IF ~Truthy(raw_path) THEN Located(dataset, None, TRUE, None)
        ELSE IF Exists(files, raw_path)
        THEN Located(WithFileName(dataset, raw_path), raw_path, TRUE, None)
        ELSE Located(dataset, None, FALSE, "Dataset file not found: " \o raw_path)

\* size_bytes, approx_size, url, available and error of a located entry.
Described(files, found) ==
    LET sized == IF found.file_path # None /\ Exists(files, found.file_path)
                 THEN The({ IF "approx_size" \in DOMAIN with_size THEN with_size
                            ELSE Put(with_size, "approx_size",
                                     _format_size_bytes(with_size["size_bytes"]))
                            : with_size \in
                                {Put(found.dataset, "size_bytes",
                                     FileSize(files[found.file_path]))} })
                 ELSE found.dataset
        linked == IF "url" \notin DOMAIN sized /\ Truthy(Get(sized, "file_name", None))
                  THEN Put(sized, "url", "/datasets/" \o sized["file_name"])
                  ELSE sized
        marked == Put(linked, "available", found.available)
    IN  IF Truthy(found.error_message)
        THEN Put(marked, "error", found.error_message)
        ELSE marked

\* _resolve_catalog_entry: the descriptor, or the exception raised.
_resolve_catalog_entry(files, environ, entry) ==
    IF ~Truthy(Get(entry, "id", None))
    THEN [exc |-> "ValueError",
          message |-> "GeoNames dataset entry is missing required 'id'.",
          dataset |-> entry]
    ELSE [exc |-> "none", message |-> "",
          dataset |->
            The({ Described(files, found) : found \in
                    {IF Get(entry, "source", "static") = "active"
                     THEN ResolveActive(files, environ, entry)
                     ELSE ResolveStatic(files, entry)} })]

\* The descriptor the catalog holds for an entry whose resolution raised.
Unresolved(entry, message) ==
    [id |-> Get(entry, "id", "unknown"),
     label |-> Get(entry, "label", "GeoNames Dataset"),
     description |-> Get(entry, "description", ""),
     source |-> Get(entry, "source", "static"),
     available |-> FALSE,
     error |-> message]

\* load_geonames_dataset_catalog
load_geonames_dataset_catalog(files, environ) ==
    LET Resolved(entry) ==
            The({ IF res.exc = "none" THEN res.dataset
                  ELSE Unresolved(entry, res.message)
                  : res \in {_resolve_catalog_entry(files, environ, entry)} })
    IN  The({ IF config.exc # "none"
              THEN Outcome(config.exc, <<>>, "", <<>>, None)
              ELSE Outcome("none",
                           [i \in 1..Len(config.datasets) |->
                               Resolved(config.datasets[i])],
                           "", <<>>, None)
              : config \in {_load_dataset_config(files)} })

LoadCatalog ==
    /\ clock < MaxClock
    /\ ret.op = "none"
    /\ \E out \in {load_geonames_dataset_catalog(fs, env)} :
          ret' = [op |-> "load_geonames_dataset_catalog", args |-> <<>>,
                  exc |-> out.exc, value |-> out.value, num |-> 0,
                  sql |-> out.sql, params |-> out.params, path |-> out.path,
                  log |-> <<>>]
    /\ clock' = clock + 1
    /\ UNCHANGED <<env, fs, inflight>>

\* The entries catalog files of the model are made of: the active
\* dataset, the sample, a region file, an entry tagged "generated" that
\* names a path, an entry without identifier, an entry without path, and
\* an item that is no dictionary.
CatalogItems ==
    { Entry([id |-> "wa", label |-> "Washington", source |-> "active"]),
      Entry([id |-> "tiny", label |-> "Tiny", source |-> "static",
             path |-> SamplePath, url |-> "/assets/data/geonames-sample.db"]),
      Entry([id |-> "us-or", label |-> "Oregon", path |-> RegionPath]),
      Entry([id |-> "us-wa-king", label |-> "King County", source |-> "generated",
             path |-> RegionPath, approx_size |-> "about 1 MB",
             url |-> "/api/geonames/lite?country=US&admin1=WA&admin2=King"]),
      Entry([label |-> "No identifier", path |-> SamplePath]),
      Entry([id |-> "bare", label |-> "No path"]),
      NotAnEntry }

MaxEntries == 3

RECURSIVE ItemLists(_)
ItemLists(n) ==
    IF n = 0 THEN {<<>>}
    ELSE ItemLists(n - 1)
         \cup {Append(items, item) :
                  items \in {l \in ItemLists(n - 1) : Len(l) = n - 1},
                  item \in CatalogItems}

CatalogTexts ==
    {InvalidJson, JsonScalar, JsonObject(NoKey), JsonObject(JsonScalar)}
    \cup {JsonList(items) : items \in ItemLists(MaxEntries)}
    \cup {JsonObject(JsonList(items)) : items \in ItemLists(MaxEntries)}

CatalogInit ==
    /\ clock = 0
    /\ ret = NoRet
    /\ inflight = {}
    /\ \E lite \in {None, EnvLitePath} : env = Environ(lite, None)
    /\ \E catalog \in {Absent} \cup {JsonFile(raw) : raw \in CatalogTexts},
          active \in {Absent, Db(Pool)}, named \in {Absent, Db({})},
          sample \in {Absent, Db({})}, region \in {Absent, Db({})} :
          fs = [NoFiles EXCEPT ![DATASET_CATALOG_PATH] = catalog,
                               ![DEFAULT_DATASET_PATHS[1]] = active,
                               ![EnvLitePath] = named,
                               ![SamplePath] = sample,
                               ![RegionPath] = region]

CatalogNext == LoadCatalog

CatalogSpec == CatalogInit /\ [][CatalogNext]_vars

(***************************************************************************)
(* What the catalog holds.                                                 *)
(***************************************************************************)
CatalogCalled == ret.op = "load_geonames_dataset_catalog"

CatalogLoaded == CatalogCalled /\ ret.exc = "none"

\* The list the catalog file holds: the JSON text is a list, or an object
\* whose "datasets" is a list or is missing (then the list is empty).
HoldsList(file) ==
    /\ file.kind = "json"
    /\ \/ file.json.type = "list"
       \/ file.json.type = "object" /\ file.json.datasets.type \in {"list", "missing"}

ListOf(file) ==
    IF file.json.type = "list" THEN file.json.items
    ELSE IF file.json.datasets.type = "list" THEN file.json.datasets.items
    ELSE <<>>

\* The entries of the configured list, in order.
Configured(file) ==
    IF ~HoldsList(file) THEN <<>>
    ELSE LET kept == SelectSeq(ListOf(file), LAMBDA item : item.dict)
         IN  [i \in 1..Len(kept) |-> kept[i].entry]

\* An entry whose resolution fails: no identifier, a static path that is
\* not on disk, or the active dataset when the locator finds none.
Failing(entry) ==
    \/ ~Truthy(Get(entry, "id", None))
    \/ /\ Get(entry, "source", "static") = "active"
       /\ resolve_dataset_path(fs, env).exc # "none"
    \/ /\ Get(entry, "source", "static") # "active"
       /\ Truthy(Get(entry, "path", None))
       /\ ~Exists(fs, entry["path"])

Without(seq, j) == [k \in 1..(Len(seq) - 1) |-> IF k < j THEN seq[k] ELSE seq[k + 1]]

\* C19: a catalog loaded from a configured list has one descriptor per
\* entry of the list, in the order of the list; the descriptor of an entry
\* whose resolution fails says available: false and carries an error that
\* is not empty, and the other descriptors are those of the list without
\* that entry.
C19_FailuresPerEntry ==
    (CatalogCalled /\ Configured(fs[DATASET_CATALOG_PATH]) # <<>>) =>
        LET entries == Configured(fs[DATASET_CATALOG_PATH])
        IN  /\ ret.exc = "none"
            /\ Len(ret.value) = Len(entries)
            /\ \A i \in DOMAIN entries :
                  /\ ret.value[i]["label"] = entries[i]["label"]
                  /\ Failing(entries[i]) =>
                        /\ ret.value[i]["available"] = FALSE
                        /\ "error" \in DOMAIN ret.value[i]
                        /\ ret.value[i]["error"] # ""
                        /\ Len(entries) > 1 =>
                              load_geonames_dataset_catalog(
                                  [fs EXCEPT ![DATASET_CATALOG_PATH] =
                                      JsonFile(JsonList(
                                          [k \in 1..(Len(entries) - 1) |->
                                              Entry(Without(entries, i)[k])]))],
                                  env).value
                                = Without(ret.value, i)

\* The active dataset is not found, the second entry has no identifier,
\* and the sample after them is available.
C19_Witness ==
    /\ CatalogLoaded
    /\ Len(ret.value) = 3
    /\ ret.value[1]["id"] = "wa" /\ ~ret.value[1]["available"]
    /\ ret.value[2]["id"] = "unknown" /\ ~ret.value[2]["available"]
    /\ ret.value[3]["id"] = "tiny" /\ ret.value[3]["available"]
    /\ ret.value[3]["size_bytes"] > 0

\* The catalog is the two built-in entries: the active download and the
\* static sample.
ReturnedDefaults ==
    /\ CatalogLoaded
    /\ Len(ret.value) = 2
    /\ ret.value[1]["id"] = "us-wa" /\ ret.value[1]["source"] = "active"
    /\ ret.value[2]["id"] = "sample" /\ ret.value[2]["source"] = "static"

\* C20: the catalog is the two built-in entries exactly when the catalog
\* file is absent or its list holds no descriptor; otherwise it is read
\* from the file, and a file of invalid JSON is a configuration error.
C20_DefaultsWhenNothingConfigured ==
    CatalogCalled =>
        LET file == fs[DATASET_CATALOG_PATH]
        IN  /\ ReturnedDefaults <=>
                  \/ file.kind = "absent"
                  \/ HoldsList(file) /\ Configured(file) = <<>>
            /\ (file.kind = "json" /\ file.json.type = "invalid") =>
                  ret.exc = "RuntimeError" /\ ret.value = <<>>
            /\ (CatalogLoaded /\ ~ReturnedDefaults) =>
                  /\ Len(ret.value) = Len(Configured(file))
                  /\ \A i \in DOMAIN ret.value :
                        ret.value[i]["label"] = Configured(file)[i]["label"]

\* The file is there and its list holds two items, neither a descriptor;
\* the catalog is the built-in one.
C20_Witness ==
    /\ ReturnedDefaults
    /\ fs[DATASET_CATALOG_PATH].kind = "json"
    /\ fs[DATASET_CATALOG_PATH].json.type = "list"
    /\ Len(fs[DATASET_CATALOG_PATH].json.items) = 2

\* C21: every descriptor of the catalog whose source is "generated" says
\* available: true and shows no trace of a look at the disk (no error, no
\* measured size), whatever path it names and whatever files exist.
C21_GeneratedAssumedAvailable ==
    CatalogLoaded =>
        \A i \in DOMAIN ret.value :
            Get(ret.value[i], "source", "static") = "generated" =>
                /\ ret.value[i]["available"] = TRUE
                /\ "error" \notin DOMAIN ret.value[i]
                /\ "size_bytes" \notin DOMAIN ret.value[i]

\* The file a descriptor is backed by, if it is on disk: the active
\* dataset the locator finds, or the file at the path the entry names.
BackingFileFound(descriptor) ==
    IF Get(descriptor, "source", "static") = "active"
    THEN resolve_dataset_path(fs, env).exc = "none"
    ELSE /\ Truthy(Get(descriptor, "path", None))
         /\ Exists(fs, descriptor["path"])

\* C29: in every descriptor of the catalog that carries size_bytes, the
\* approx_size is what _format_size_bytes makes of that size_bytes, whatever
\* the configured entry held; and size_bytes is there only when the backing
\* file was found on disk.
C29_ApproximateSizeOfMeasuredSize ==
    CatalogLoaded =>
        \A i \in DOMAIN ret.value :
            "size_bytes" \in DOMAIN ret.value[i] =>
                /\ "approx_size" \in DOMAIN ret.value[i]
                /\ ret.value[i]["approx_size"]
                      = _format_size_bytes(ret.value[i]["size_bytes"])
                /\ BackingFileFound(ret.value[i])

(***************************************************************************)
(* The size formatter: _format_size_bytes (geodata.py 236-246).            *)
(***************************************************************************)
\* Sizes around the steps of the formatter: the bytes, and kilobytes and
\* megabytes at 1, 2, 9, 10, 11 and 1023 units with the remainders at which
\* the rounding changes.
FormatSizes ==
    (0..20) \cup {950, 1000, 1023}
    \cup { units * scale + (part * scale) \div 2048 :
              scale \in {1024, 1024 * 1024},
              units \in {1, 2, 9, 10, 11, 100, 1023},
              part \in {0, 101, 102, 103, 1023, 1024, 1025, 1945, 1946, 2047} }

FormatInit ==
    /\ clock = 0
    /\ ret = NoRet
    /\ inflight = {}
    /\ env = Environ(None, None)
    /\ fs = NoFiles

FormatSize ==
    /\ clock < MaxClock
    /\ ret.op = "none"
    /\ \E size \in FormatSizes :
          ret' = [op |-> "_format_size_bytes", args |-> [size |-> size],
                  exc |-> "none",
                  value |-> <<[text |-> _format_size_bytes(size),
                               parts |-> FormatParts(size)]>>,
                  num |-> size, sql |-> "", params |-> <<>>, path |-> None,
                  log |-> <<>>]
    /\ clock' = clock + 1
    /\ UNCHANGED <<env, fs, inflight>>

FormatNext == FormatSize

FormatSpec == FormatInit /\ [][FormatNext]_vars

Formatted == ret.op = "_format_size_bytes"

\* C24: a size below 1024 is shown as "<n> B"; a larger one in KB, MB, GB
\* or TB, with one decimal when the number shown is below 10 and none when
\* it is 10 or more; 950 gives "950 B" and 2048 gives "2.0 KB"; no number
\* of 10 or more is shown with a decimal, and none of 1024 or more in a
\* unit below TB.
C24_SizeFormat ==
    Formatted =>
        LET shown == ret.value[1].parts
            text == ret.value[1].text
        IN  /\ ret.num < 1024 => text = ToString(ret.num) \o " B"
            /\ ret.num >= 1024 => shown.unit \in {"KB", "MB", "GB", "TB"}
            /\ ret.num = 950 => text = "950 B"
            /\ ret.num = 2048 => text = "2.0 KB"
            /\ shown.decimals = 1 => shown.whole < 10
            /\ (shown.unit # "B" /\ shown.decimals = 0) => shown.whole >= 10
            /\ shown.unit # "TB" => shown.whole < 1024

(***************************************************************************)
(* The dataset locator on its own: one call of either resolver on a        *)
(* deployment with both overrides and every probed path free.              *)
(***************************************************************************)
ResolveInit ==
    /\ clock = 0
    /\ ret = NoRet
    /\ inflight = {}
    /\ \E lite \in {None, "", EnvLitePath}, master \in {None, "", EnvMasterPath} :
          env = Environ(lite, master)
    /\ \E present \in SUBSET (LitePaths \cup MasterPaths) :
          fs = [p \in Paths |->
                  IF p \notin present THEN Absent
                  ELSE IF p \in LitePaths THEN Db(Pool) ELSE MasterDb(Pool)]

ResolveCall(kind, res) ==
    /\ ret' = [op |-> "resolve", args |-> [kind |-> kind], exc |-> res.exc,
               value |-> <<[named |-> res.named]>>, num |-> 0, sql |-> "",
               params |-> <<>>, path |-> res.path, log |-> <<>>]
    /\ clock' = clock + 1
    /\ UNCHANGED <<env, fs, inflight>>

ResolveDatasetPath ==
    /\ clock < MaxClock
    /\ ret.op = "none"
    /\ ResolveCall("active", resolve_dataset_path(fs, env))

ResolveMasterDatasetPath ==
    /\ clock < MaxClock
    /\ ret.op = "none"
    /\ ResolveCall("master", resolve_master_dataset_path(fs, env))

ResolveNext == ResolveDatasetPath \/ ResolveMasterDatasetPath

ResolveSpec == ResolveInit /\ [][ResolveNext]_vars

Resolved == ret.op = "resolve"

\* The override and the built-in candidates of the resolver that was called.
OwnOverride ==
    IF ret.args.kind = "active" THEN env.DALITRAIL_GEONAMES_DB
    ELSE env.DALITRAIL_GEONAMES_MASTER_DB

OwnCandidates ==
    IF ret.args.kind = "active" THEN DEFAULT_DATASET_PATHS
    ELSE DEFAULT_MASTER_CANDIDATES

OtherOverride ==
    IF ret.args.kind = "active" THEN env.DALITRAIL_GEONAMES_MASTER_DB
    ELSE env.DALITRAIL_GEONAMES_DB

IsFirstExisting(path, candidates) ==
    \E i \in DOMAIN candidates :
        /\ path = candidates[i]
        /\ Exists(fs, path)
        /\ \A j \in 1..(i - 1) : ~Exists(fs, candidates[j])

C23_WitnessCandidate ==
    /\ Resolved
    /\ ~Truthy(OwnOverride)
    /\ Truthy(OtherOverride)
    /\ ~Exists(fs, OtherOverride)
    /\ ret.exc = "none"
    /\ ret.path = OwnCandidates[2]

\* The master path a build reads, None when the locator finds none.
MasterPathOf(files, environ, master_db) ==
    MasterSource(files, environ, master_db).path

\* C26: a build leaves the master as it was: no file is created at the
\* master path, and its existence and content are unchanged, also when an
\* explicit master_db is given that does not exist.
C26_MasterOnlyRead ==
    [][ ret'.op = "build_lite_dataset" =>
          \A p \in Paths :
              p = MasterPathOf(fs, env, ret'.args.master_db) => fs'[p] = fs[p]
      ]_vars

(***************************************************************************)
(* Catalog generation: generate_dynamic_catalog (geodata.py 661-746).      *)
(***************************************************************************)
\* str.casefold() and str.lower() on the strings of the model, which are
\* ASCII: the two agree.
CaseFold(s) ==
    CASE s = "US" -> "us"
      [] s = "FJ" -> "fj"
      [] s = "WA" -> "wa"
      [] s = "OR" -> "or"
      [] s = "King" -> "king"
      [] s = "Multnomah" -> "multnomah"
      [] s = "WA-King" -> "wa-king"
      [] s = "A&B" -> "a&b"
      [] OTHER -> s

\* The casefolded strings of the model in the order of their code points.
Collation ==
    << "", "03", "a&b", "fj", "king", "multnomah", "or", "us", "wa", "wa-king" >>

StrRank(s) == CHOOSE i \in DOMAIN Collation : Collation[i] = s

\* _norm
Norm(v) == CaseFold(IF Truthy(v) THEN v ELSE "")

\* The sort key of a region.  Labels of regions that agree in the three
\* folded parts differ in the count only, one digit in the model.
RegionKey(r) ==
    << StrRank(Norm(Get(r, "country", None))),
       StrRank(Norm(Get(r, "admin1", None))),
       StrRank(Norm(Get(r, "admin2", None))),
       r.n >>

\* Tuples compared as Python compares them.
RECURSIVE TupleLess(_, _)
TupleLess(a, b) ==
    IF a = <<>> \/ b = <<>> THEN a = <<>> /\ b # <<>>
    ELSE IF a[1] # b[1] THEN a[1] < b[1]
    ELSE TupleLess(Tail(a), Tail(b))

\* sorted(regions, key=...): stable.
RECURSIVE SortRegions(_)
SortRegions(regions) ==
    IF regions = <<>> THEN <<>>
    ELSE LET n == Len(regions)
             rest == SortRegions(SubSeq(regions, 1, n - 1))
             last == regions[n]
             before == SelectSeq(rest, LAMBDA r :
                           ~TupleLess(RegionKey(last), RegionKey(r)))
             after == SelectSeq(rest, LAMBDA r :
                           TupleLess(RegionKey(last), RegionKey(r)))
         IN  before \o <<last>> \o after

\* The truthy ones of country, admin1 and admin2 of a region.
IdParts(r) ==
    SelectSeq(<<Get(r, "country", None), Get(r, "admin1", None),
                Get(r, "admin2", None)>>,
              LAMBDA p : Truthy(p))

\* id_str_raw and id_str; lower() of the joined text is the joined lower()
\* of the parts.
IdStrRaw(r) == Join(IdParts(r), "-")

IdStr(r) == Join([i \in DOMAIN IdParts(r) |-> CaseFold(IdParts(r)[i])], "-")

\* qs: the pairs of the query, and the query as text.
QueryPairs(r) ==
    SelectSeq(<< <<"country", Get(r, "country", None)>>,
                 <<"admin1", Get(r, "admin1", None)>>,
                 <<"admin2", Get(r, "admin2", None)>> >>,
              LAMBDA pair : Truthy(pair[2]))

QueryText(r) ==
    Join([i \in DOMAIN QueryPairs(r) |->
             QueryPairs(r)[i][1] \o "=" \o QueryPairs(r)[i][2]], "&")

\* The pinned entries.  The description of the first has a typographic
\* apostrophe in the source.
ActiveLiteEntry ==
    [id |-> "active-lite", label |-> "Current Lite Dataset",
     description |-> "The server's active lite DB (for compatibility).",
     source |-> "active", url |-> "/datasets/geonames-lite-us-wa.db"]

SampleEntry ==
    [id |-> "sample", label |-> "Sample Dataset (Tiny)",
     description |-> "Mini dataset for testing search locally.",
     source |-> "static", path |-> SamplePath,
     file_name |-> "geonames-sample.db",
     url |-> "/assets/data/geonames-sample.db"]

\* The descriptor of a region.
RegionEntry(r) ==
    [id |-> IdStr(r),
     label |-> IF Truthy(Get(r, "label", None)) THEN r.label ELSE IdStrRaw(r),
     description |-> "~" \o ToString(Get(r, "n", 0)) \o " features",
     source |-> "generated",
     url |-> "/api/geonames/lite?" \o QueryText(r),
     file_name |-> "geonames-lite-" \o IdStrRaw(r) \o ".db"]

\* The sample left out whatever include_sample says.
PinnedWithoutSample(include_sample) == <<ActiveLiteEntry>>

Pinned(include_sample) ==
    IF include_sample THEN <<ActiveLiteEntry, SampleEntry>>
    ELSE <<ActiveLiteEntry>>

\* json.dumps({"datasets": datasets}) as json.loads reads it back.
CatalogJson(datasets) ==
    JsonFile(JsonObject(JsonList([i \in DOMAIN datasets |-> Entry(datasets[i])])))

\* generate_dynamic_catalog: the outcomes the call can have, the regions
\* each was made of and the file system each leaves.
generate_dynamic_catalog(files, environ, level, country, min_count, limit, master_db, include_sample) ==
    { IF scan.out.exc # "none"
      THEN [out |-> scan.out, files |-> scan.files, regions |-> <<>>]
      ELSE The({ [out |-> [scan.out EXCEPT !.value = datasets],
                  files |-> [scan.files EXCEPT
                               ![DATASET_CATALOG_PATH] = CatalogJson(datasets)],
                  regions |-> SortRegions(scan.out.value)]
                 : datasets \in
                     {Pinned(include_sample)
                      \o [i \in DOMAIN scan.out.value |->
                             RegionEntry(SortRegions(scan.out.value)[i])]} })
      : scan \in scan_regions(files, environ, level, country, min_count, limit,
                              master_db) }

\* One call; the regions the catalog was made of are kept beside the
\* descriptors, in their order.
GenerateCatalog(level, country, min_count, limit, include_sample) ==
    /\ clock < MaxClock
    /\ ret.op = "none"
    /\ \E res \in generate_dynamic_catalog(fs, env, level, country, min_count,
                                           limit, None, include_sample) :
        /\ ret' = [op |-> "generate_dynamic_catalog",
                   args |-> [level |-> level, country |-> country,
                             min_count |-> min_count, limit |-> limit,
                             include_sample |-> include_sample],
                   exc |-> res.out.exc, value |-> res.out.value, num |-> 0,
                   sql |-> res.out.sql, params |-> res.out.params,
                   path |-> res.out.path, log |-> res.regions]
        /\ fs' = res.files
    /\ clock' = clock + 1
    /\ UNCHANGED <<env, inflight>>

\* load_geonames_dataset_catalog right after a generation.
LoadGeneratedCatalog ==
    /\ clock < MaxClock
    /\ ret.op = "generate_dynamic_catalog"
    /\ \E out \in {load_geonames_dataset_catalog(fs, env)} :
          ret' = [op |-> "load_geonames_dataset_catalog", args |-> <<>>,
                  exc |-> out.exc, value |-> out.value, num |-> 0,
                  sql |-> out.sql, params |-> out.params, path |-> out.path,
                  log |-> <<>>]
    /\ clock' = clock + 1
    /\ UNCHANGED <<env, fs, inflight>>

\* Features whose region parts differ in case only, hold a '-', leave
\* admin1 or admin2 empty, or hold a '&'.
GeneratePool ==
    Pool \cup
    { Feature(7, "Walla Walla", "P", "PPL", 46065, -118330, "US", "wa", "King", 30000),
      Feature(8, "Vashon", "T", "ISL", 47420, -122460, "US", "WA-King", None, 0),
      Feature(9, "Alder & Birch", "P", "PPL", 47000, -122000, "US", "WA", "A&B", 0) }

MaxMaster == 3

\* The master at its first built-in path: up to MaxMaster features, or
\* missing; the catalog file missing, unreadable or holding an older list;
\* the sample on disk or not.
GenerateInit ==
    /\ clock = 0
    /\ ret = NoRet
    /\ inflight = {}
    /\ env = Environ(None, None)
    /\ \E master \in {MasterDb(rows) : rows \in
                         {s \in SUBSET GeneratePool : Cardinality(s) <= MaxMaster}}
                     \cup {Absent},
          catalog \in {Absent, JsonFile(InvalidJson),
                       JsonFile(JsonList(<<Entry([id |-> "older", label |-> "Older",
                                                  path |-> RegionPath])>>))},
          sample \in {Absent, Db({})} :
          fs = [NoFiles EXCEPT ![DEFAULT_MASTER_CANDIDATES[1]] = master,
                               ![DATASET_CATALOG_PATH] = catalog,
                               ![SamplePath] = sample]

GenerateCall ==
    \E level \in Levels, country \in {None, "US"}, min_count \in {1, 2},
       limit \in {-1, 2}, include_sample \in BOOLEAN :
        GenerateCatalog(level, country, min_count, limit, include_sample)


\* The text of a value cut at every '&' and '='.
ValueTokens(s) ==
    CASE s = "A&B" -> <<"A", "&", "B">>
      [] OTHER -> <<s>>

\* The query of a region's locator, cut in the same way.
RECURSIVE PairTokens(_)
PairTokens(pairs) ==
    IF pairs = <<>> THEN <<>>
    ELSE <<pairs[1][1], "=">> \o ValueTokens(pairs[1][2])
         \o (IF Len(pairs) > 1 THEN <<"&">> ELSE <<>>)
         \o PairTokens(Tail(pairs))

\* The pieces of the query of a locator of the catalog made of regions.
QueryTokens(url, regions) ==
    PairTokens(QueryPairs(
        CHOOSE r \in Range(regions) : "/api/geonames/lite?" \o QueryText(r) = url))

\* The fields of a query: the pieces between the '&'.
RECURSIVE QueryFields(_)
QueryFields(tokens) ==
    IF tokens = <<>> THEN <<>>
    ELSE LET cut == IF \E i \in DOMAIN tokens : tokens[i] = "&"
                    THEN SetMin({i \in DOMAIN tokens : tokens[i] = "&"})
                    ELSE Len(tokens) + 1
         IN  <<SubSeq(tokens, 1, cut - 1)>>
             \o QueryFields(SubSeq(tokens, cut + 1, Len(tokens)))

\* The name and the value of a field: the text before and after its first
\* '='.
FieldName(field) ==
    LET cut == IF \E i \in DOMAIN field : field[i] = "="
               THEN SetMin({i \in DOMAIN field : field[i] = "="})
               ELSE Len(field) + 1
    IN  Join(SubSeq(field, 1, cut - 1), "")

FieldValue(field) ==
    LET cut == IF \E i \in DOMAIN field : field[i] = "="
               THEN SetMin({i \in DOMAIN field : field[i] = "="})
               ELSE Len(field) + 1
    IN  Join(SubSeq(field, cut + 1, Len(field)), "")

\* The value of a query parameter, None when the query has none of that
\* name; of several the last.
QueryParam(tokens, name) ==
    LET fields == QueryFields(tokens)
        named == {i \in DOMAIN fields : FieldName(fields[i]) = name}
    IN  IF named = {} THEN None ELSE FieldValue(fields[SetMax(named)])

\* The arguments a request for a locator gives the endpoint.
RequestArgs(url, regions) ==
    LET tokens == QueryTokens(url, regions)
    IN  [country |-> QueryParam(tokens, "country"),
         admin1 |-> QueryParam(tokens, "admin1"),
         admin2 |-> QueryParam(tokens, "admin2"),
         feature_codes |-> NoCsv, label |-> None]

HTTP_UNPROCESSABLE == 422

\* Query(..., min_length=2, max_length=3) and the lengths of admin1 and
\* admin2.
RequestValid(args) ==
    /\ args.country # None /\ Len(args.country) \in 2..3
    /\ args.admin1 # None => Len(args.admin1) \in 1..32
    /\ args.admin2 # None => Len(args.admin2) \in 1..64

\* A request for the locator of one descriptor of the catalog just
\* generated: rejected by the framework, or handled by build_geonames_lite.
DownloadRegion ==
    /\ clock < MaxClock
    /\ ret.op = "generate_dynamic_catalog"
    /\ ret.exc = "none"
    /\ \E i \in DOMAIN ret.value, tmp_path \in TempPaths :
        /\ ret.value[i].source = "generated"
        /\ \E args \in {RequestArgs(ret.value[i].url, ret.log)} :
              IF RequestValid(args)
              THEN HttpBuildLite(tmp_path, args.country, args.admin1, args.admin2,
                                 args.feature_codes, args.label)
              ELSE /\ ret' = [op |-> "build_geonames_lite", args |-> args,
                              exc |-> "RequestValidationError", value |-> <<>>,
                              num |-> HTTP_UNPROCESSABLE, sql |-> "",
                              params |-> <<>>, path |-> None, log |-> <<>>]
                   /\ clock' = clock + 1
                   /\ UNCHANGED <<env, fs, inflight>>

GenerateNext ==
    \/ GenerateCall
    \/ LoadGeneratedCatalog
    \/ DownloadRegion

GenerateSpec == GenerateInit /\ [][GenerateNext]_vars

(***************************************************************************)
(* What a generated catalog holds.                                         *)
(***************************************************************************)
Generated == ret.op = "generate_dynamic_catalog" /\ ret.exc = "none"

\* The descriptors of the regions, after the pinned ones.
PinnedCount == Len(ret.value) - Len(ret.log)

\* C22: the catalog returned starts with the pinned entries, the active
\* one and then the sample when include_sample is set and only then,
\* followed by one "generated" descriptor per scanned region, the regions
\* being in the case-insensitive order of (country, admin1, admin2, label);
\* the catalog file holds that list and nothing else.
C22_PinnedThenRegions ==
    Generated =>
        /\ PinnedCount = IF ret.args.include_sample THEN 2 ELSE 1
        /\ ret.value[1].id = "active-lite" /\ ret.value[1].source = "active"
        /\ ret.args.include_sample =>
              ret.value[2].id = "sample" /\ ret.value[2].source = "static"
        /\ \A i \in DOMAIN ret.log :
              /\ ret.value[PinnedCount + i].source = "generated"
              /\ ret.value[PinnedCount + i].description
                    = "~" \o ToString(ret.log[i].n) \o " features"
        /\ \A i, j \in DOMAIN ret.log :
              i < j => ~TupleLess(RegionKey(ret.log[j]), RegionKey(ret.log[i]))
        /\ \A i, j \in DOMAIN ret.log :
              i # j => ret.log[i] # ret.log[j]
        /\ Configured(fs[DATASET_CATALOG_PATH]) = ret.value

\* A catalog of pinned entries and at least two regions, written over an
\* older catalog file.
C22_Witness ==
    /\ Generated
    /\ ret.args.include_sample
    /\ Len(ret.log) >= 2
    /\ ret.log[1].country # ret.log[2].country
    /\ Len(Configured(fs[DATASET_CATALOG_PATH])) = 2 + Len(ret.log)


\* C28: the identifiers of the descriptors of one generated catalog are
\* pairwise distinct, and no identifier of a region is empty or one of the
\* pinned "active-lite" and "sample".
C28_IdentifiersDistinct ==
    Generated =>
        /\ \A i, j \in DOMAIN ret.value :
              i # j => ret.value[i].id # ret.value[j].id
        /\ \A i \in DOMAIN ret.value :
              ret.value[i].source = "generated" =>
                  ret.value[i].id \notin {"", "active-lite", "sample"}

\* C30: a catalog loaded right after a generation has one descriptor per
\* descriptor generated, in the same order and with the same id, label,
\* source and url; it is never the built-in default.
C30_LoadedIsGenerated ==
    [][ (Generated /\ ret'.op = "load_geonames_dataset_catalog") =>
          /\ ret'.exc = "none"
          /\ Len(ret'.value) = Len(ret.value)
          /\ \A i \in DOMAIN ret.value :
                \A key \in {"id", "label", "source", "url"} :
                    /\ key \in DOMAIN ret'.value[i]
                    /\ ret'.value[i][key] = ret.value[i][key]
          /\ ret'.value[1]["id"] # _default_dataset_catalog[1].id
      ]_vars

\* The region a descriptor of the generated catalog was made of.
RegionOf(i) == ret.log[i - PinnedCount]

\* C27: a request for the locator of a descriptor of the generated catalog
\* builds a subset that holds exactly the region's features: as many rows
\* as the region counts, each with the region's country, admin1 and (at
\* level admin2) admin2.
C27_LocatorBuildsRegion ==
    [][ Generated =>
          \A i \in DOMAIN ret.value :
              (/\ ret.value[i].source = "generated"
               /\ ret'.op = "build_geonames_lite"
               /\ ret'.args = RequestArgs(ret.value[i].url, ret.log)) =>
                  /\ ret'.exc = "none"
                  /\ Cardinality(fs'[ret'.path].features) = RegionOf(i).n
                  /\ \A row \in fs'[ret'.path].features :
                        \A part \in {"country", "admin1", "admin2"}
                                        \cap DOMAIN RegionOf(i) :
                            row[part] = RegionOf(i)[part]
      ]_vars

(***************************************************************************)
(* Builds in flight at the same time.                                      *)
(***************************************************************************)
\* The temporary files of the builds whose response is still to be sent
\* or cleaned up.
InFlightPaths == {r.path : r \in inflight}

\* The rows of the master that a request asks for, as the endpoint reads
\* its parameters.
RequestedRows(master, args) ==
    { Project(m, LITE_COLUMNS) :
        m \in { f \in master.features :
                  /\ f.country = Upper(Strip(args.country))
                  /\ Truthy(args.admin1) => f.admin1 = Upper(Strip(args.admin1))
                  /\ Truthy(args.admin2) => f.admin2 = Strip(args.admin2)
                  /\ CodesTruthy(_split_codes(args.feature_codes)) =>
                        HasCompoundCode(f, _split_codes(args.feature_codes).items) } }

\* C25: no build writes or removes the temporary file of a build still in
\* flight: a build takes a path no build in flight has and leaves the files
\* of the others as they are, no step changes a file whose response is
\* still to be sent, and the file of a build that succeeded holds exactly
\* the rows its own request asks for.
C25_OneBuildPerOutputPath ==
    [][ /\ (ret' # ret /\ ret'.op = "build_geonames_lite") =>
              /\ ret'.path \notin InFlightPaths
              /\ \A p \in InFlightPaths : fs'[p] = fs[p]
              /\ ret'.exc = "none" =>
                    fs'[ret'.path].features
                        = RequestedRows(fs[resolve_master_dataset_path(fs, env).path],
                                        ret'.args)
        /\ \A r \in inflight : ~r.sent => fs'[r.path] = fs[r.path]
      ]_vars

\* Two builds in flight with different filters, each temporary file
\* holding its own rows.
C25_Witness ==
    /\ ret.op = "build_geonames_lite" /\ ret.exc = "none"
    /\ Cardinality(inflight) = 2
    /\ \E r \in inflight :
          /\ r.path # ret.path
          /\ ~r.sent
          /\ fs[r.path].features # {}
          /\ fs[ret.path].features # {}
          /\ fs[r.path].features # fs[ret.path].features

(***************************************************************************)
Next ==
    \/ SearchNext \/ BuildNext \/ RoundTripNext \/ RebuildNext \/ HttpNext
    \/ ChunkNext \/ ScanNext \/ CatalogNext \/ FormatNext \/ ResolveNext
    \/ GenerateNext

Spec == Init /\ [][Next]_vars

====
